---- MODULE Spec2Model ----
(***************************************************************************)
(* Model of squeeb's query builder: conditions, condition sequences and    *)
(* groups (squeeb/query/conditions.py), value maps (squeeb/query/values.py)*)
(* and the Insert/Select/Update/Delete builders (squeeb/query/queries.py), *)
(* and of its model layer: column descriptors (squeeb/model/columns.py),   *)
(* model classes and instances (squeeb/model/models.py), indexes           *)
(* (squeeb/model/index.py), the CREATE TABLE builder, and the database     *)
(* classes and result objects (squeeb/db.py).                              *)
(*                                                                         *)
(* Python objects live in heaps (sequences indexed by object id).  The     *)
(* class-level lists of the source are single variables, because no        *)
(* instance or subclass ever gets a list of its own:                       *)
(*   _BaseQueryConditionSequence._conditions  -> seq_conditions            *)
(*   QueryConditionGroup._conditions          -> group_conditions          *)
(*   _QueryValueMapGroup._value_maps          -> value_maps                *)
(*   Database.__tables__                      -> tables                    *)
(*                                                                         *)
(* SQL text is a sequence of tokens; a blank is the token " ", so that     *)
(* str.strip() and the padding of Junction values are modelled.            *)
(***************************************************************************)
EXTENDS Integers, Sequences, FiniteSets, TLC

VARIABLES conds, seqs, seq_conditions, groups, group_conditions,
          value_maps, builders, last, log,
          column_classes, column_cache, columns, models, tables, indexes,
          databases, instances, results

(* the objects of squeeb/query *)
qvars == <<conds, seqs, seq_conditions, groups, group_conditions,
           value_maps, builders>>

(* the objects of squeeb/model and squeeb/db.py *)
mvars == <<column_classes, column_cache, columns, models, tables, indexes,
           databases, instances, results>>

vars == <<qvars, last, log, mvars>>

-----------------------------------------------------------------------------
(* Bounds of the model: sizes of the heaps and of the class-level lists     *)
MaxConds == 3
MaxSeqs == 3
MaxSeqLen == 4
MaxGroups == 2
MaxGroupLen == 2
MaxChain == 3
MaxRows == 2
MaxValueMaps == 3
MaxBuilders == 2

-----------------------------------------------------------------------------
(* Python values.  Every value is a record [t, v]; v is a sequence.        *)
PyNone == [t |-> "None", v |-> <<>>]
PyInt(n) == [t |-> "int", v |-> <<n>>]
PyList(l) == [t |-> "list", v |-> l]
PyTuple(l) == [t |-> "tuple", v |-> l]
PyStr(s) == [t |-> "str", v |-> s]

(* Operator: the comparison kinds the actions below use, by their text     *)
Operators == {"=", ">", "IN"}

(* Operator.IN and Operator.NOT_IN, the kinds rendered with a tuple of     *)
(* placeholders                                                            *)
InOperators == {"IN", "NOT IN"}

(* Junction.AND = " AND ", Junction.OR = " OR "                            *)
JunctionValue(j) == <<" ", j, " ">>
Junctions == {"AND", "OR"}

(* References to objects, as stored in lists and in builder fields         *)
Ref(k, id) == [k |-> k, id |-> id, j |-> ""]
JunctionElem(j) == [k |-> "junction", id |-> 0, j |-> j]
NoneRef == Ref("None", 0)

-----------------------------------------------------------------------------
(* Helpers on token sequences *)
RECURSIVE Concat(_)
Concat(ss) == IF ss = <<>> THEN <<>> ELSE Head(ss) \o Concat(Tail(ss))

RECURSIVE Join(_, _)
Join(sep, ss) ==
  IF ss = <<>> THEN <<>>
  ELSE IF Len(ss) = 1 THEN ss[1]
  ELSE ss[1] \o sep \o Join(sep, Tail(ss))

RECURSIVE LStrip(_)
LStrip(s) == IF s # <<>> /\ Head(s) = " " THEN LStrip(Tail(s)) ELSE s

RECURSIVE RStrip(_)
RStrip(s) ==
  IF s # <<>> /\ s[Len(s)] = " " THEN RStrip(SubSeq(s, 1, Len(s) - 1)) ELSE s

Strip(s) == RStrip(LStrip(s))

Placeholders(n) == [i \in 1..n |-> <<"?">>]

CountPlaceholders(s) == Cardinality({i \in 1..Len(s) : s[i] = "?"})

-----------------------------------------------------------------------------
(* _BaseQueryCondition *)

(* _column_name = None, which no public constructor call produces          *)
NoColumn == "<None>"

(* internal marks a MutableQueryCondition made inside a sequence's where():*)
(* no reference to it is returned to the caller.                           *)
(* vid is the identity of the list object _value refers to (0: _value is no *)
(* list): a copy of a condition refers to the same list object.            *)
NewCondition(cls, col, value, op, internal) ==
  [cls |-> cls, col |-> col, value |-> value, op |-> op, internal |-> internal,
   vid |-> 0]

Condition_get_values(c) ==
  IF c.value.t = "list" THEN [i \in 1..Len(c.value.v) |-> PyInt(c.value.v[i])]
  ELSE <<c.value>>

Condition_str(c) ==
  IF c.col = NoColumn \/ c.value.t = "None" THEN <<>>
  ELSE <<c.col, " ", c.op, " ">> \o
       (IF c.op \in InOperators /\ c.value.t = "list"
        THEN <<"(">> \o Join(<<",", " ">>, Placeholders(Len(c.value.v))) \o <<")">>
        ELSE <<"?">>)

(* isinstance(value, (list, set, tuple)) *)
IsListSetTuple(value) == value.t \in {"list", "set", "tuple"}

(* the identity of a list object made now: one no condition refers to      *)
NewListId ==
  LET used == {conds[i].vid : i \in 1..Len(conds)} \cup {0}
  IN (CHOOSE x \in used : \A y \in used : y <= x) + 1

(* MutableQueryCondition._set_condition: the receiver after the call; a    *)
(* list, set or tuple is copied into a new list, which _value is bound to  *)
MutableQueryCondition_set_condition(c, op, value) ==
  [c EXCEPT !.value = IF IsListSetTuple(value) THEN PyList(value.v) ELSE value,
            !.vid = IF IsListSetTuple(value) THEN NewListId ELSE 0,
            !.op = op]

(* mutant: a list value is written into the list object _value already     *)
(* refers to, which every copy of the condition refers to as well          *)
SetConditionOn_in_place(m, op, value) ==
  [c \in 1..Len(conds) |->
     IF c = m
     THEN [conds[m] EXCEPT
             !.value = IF IsListSetTuple(value) THEN PyList(value.v) ELSE value,
             !.vid = IF ~IsListSetTuple(value) THEN 0
                     ELSE IF conds[m].vid # 0 THEN conds[m].vid ELSE NewListId,
             !.op = op]
     ELSE IF IsListSetTuple(value) /\ conds[m].vid # 0
             /\ conds[c].vid = conds[m].vid
          THEN [conds[c] EXCEPT !.value = PyList(value.v)]
          ELSE conds[c]]

(* the conditions after conds[m]._set_condition(operator, value)           *)
SetConditionOn(m, op, value) ==
  [conds EXCEPT ![m] = MutableQueryCondition_set_condition(conds[m], op, value)]

(* QueryCondition(self): the copy constructor; _value is copied by         *)
(* reference                                                               *)
QueryCondition_copy(c) ==
  [NewCondition("QueryCondition", c.col, c.value, c.op, FALSE)
     EXCEPT !.vid = c.vid]

(* mutant: of the arguments of a variadic call only the first is kept      *)
is_in_value_first_only(values) ==
  IF IsListSetTuple(values[1]) THEN values[1]
  ELSE PyTuple(<<values[1].v[1]>>)

(* is_in / is_not_in: the value handed to _set_condition; values is the    *)
(* tuple of the arguments of the call                                      *)
is_in_value(values) ==
  IF IsListSetTuple(values[1]) THEN values[1]
  ELSE PyTuple([i \in 1..Len(values) |-> values[i].v[1]])

-----------------------------------------------------------------------------
(* QueryConditionGroup: str and values read the class-level list           *)

Group_get_values(g) ==
  Concat([i \in 1..Len(group_conditions) |->
            Condition_get_values(conds[group_conditions[i].id])])

Group_str(g) ==
  <<"(">> \o
  Join(JunctionValue(groups[g].junction),
       [i \in 1..Len(group_conditions) |->
          Condition_str(conds[group_conditions[i].id])]) \o
  <<")">>

-----------------------------------------------------------------------------
(* _BaseQueryConditionSequence *)

ElemStr(e) ==
  IF e.k = "junction" THEN JunctionValue(e.j)
  ELSE IF e.k = "group" THEN Group_str(e.id)
  ELSE Condition_str(conds[e.id])

ElemValues(e) ==
  IF e.k = "junction" THEN <<>>
  ELSE IF e.k = "group" THEN Group_get_values(e.id)
  ELSE Condition_get_values(conds[e.id])

is_ready_for_condition(L) == L[Len(L)].k = "junction"

(* mutant: the values are collected from the last element to the first     *)
Sequence_get_values_reversed(L) ==
  Concat([i \in 1..Len(L) |-> ElemValues(L[Len(L) + 1 - i])])

Sequence_get_values(L) == Concat([i \in 1..Len(L) |-> ElemValues(L[i])])

(* mutant: the elements are joined whether or not the list ends in a       *)
(* Junction                                                                *)
Sequence_str_unguarded(L) == Concat([i \in 1..Len(L) |-> ElemStr(L[i])])

Sequence_str(L) ==
  IF ~is_ready_for_condition(L)
  THEN Concat([i \in 1..Len(L) |-> ElemStr(L[i])])
  ELSE <<>>

(* self._conditions of a sequence object: the instance attribute, when     *)
(* __init__ set one, is the list of the sequence it was built from, and    *)
(* that is the class-level list; otherwise the class attribute is read.    *)
SequenceConditions(s) == seq_conditions

(* str() and value_args of the object a reference names                    *)
RefStr(r) ==
  IF r.k = "cond" THEN Condition_str(conds[r.id])
  ELSE IF r.k = "group" THEN Group_str(r.id)
  ELSE Sequence_str(SequenceConditions(r.id))

RefValues(r) ==
  IF r.k = "cond" THEN Condition_get_values(conds[r.id])
  ELSE IF r.k = "group" THEN Group_get_values(r.id)
  ELSE Sequence_get_values(SequenceConditions(r.id))

-----------------------------------------------------------------------------
(* _QueryValueMap: an ordered mapping, a sequence of [k, v] entries        *)

(* mutant: the values are listed from the last column to the first         *)
ValueMap_get_values_reversed(m) ==
  [i \in 1..Len(m) |-> PyInt(m[Len(m) + 1 - i].v)]

ValueMap_get_values(m) == [i \in 1..Len(m) |-> PyInt(m[i].v)]

ValueMap_column_str(m) ==
  <<"(">> \o Join(<<",", " ">>, [i \in 1..Len(m) |-> <<m[i].k>>]) \o <<")">>

ValueMap_values_str(m) ==
  <<"(">> \o Join(<<",", " ">>, Placeholders(Len(m))) \o <<")">>

ValueMap_value_set_str(m) ==
  Join(<<",", " ">>, [i \in 1..Len(m) |-> <<m[i].k, " ", "=", " ", "?">>])

(* _QueryValueMapGroup: every method reads the class-level list            *)

(* list(group.value_args): the generator yields one tuple per value map    *)
ValueMapGroup_get_values ==
  [i \in 1..Len(value_maps) |->
     PyTuple([n \in 1..Len(value_maps[i]) |-> value_maps[i][n].v])]

ValueMapGroup_column_str ==
  IF Len(value_maps) > 0 THEN ValueMap_column_str(value_maps[1]) ELSE <<>>

ValueMapGroup_values_str ==
  Join(<<",", " ">>,
       [i \in 1..Len(value_maps) |-> ValueMap_values_str(value_maps[i])])

(* the _value_map field of a builder *)
NoValueMap == [t |-> "None", m |-> <<>>]
SingleValueMap(m) == [t |-> "map", m |-> m]
GroupValueMap == [t |-> "group", m |-> <<>>]

-----------------------------------------------------------------------------
(* Query and AbstractQueryBuilder *)

Query(query, args, error) == [query |-> query, args |-> args, error |-> error]
NoQuery == Query(PyNone, PyNone, PyNone)

BuilderClasses == {"InsertQueryBuilder", "SelectQueryBuilder",
                   "UpdateQueryBuilder", "DeleteQueryBuilder"}

_get_columns_str(b) ==
  IF b.value_map.t = "None" THEN <<"*">>
  ELSE IF b.value_map.t = "map" THEN ValueMap_column_str(b.value_map.m)
  ELSE ValueMapGroup_column_str

_get_values_str(b) ==
  IF b.value_map.t = "None" THEN <<>>
  ELSE IF b.value_map.t = "map" THEN ValueMap_values_str(b.value_map.m)
  ELSE ValueMapGroup_values_str

_get_value_set_str(b) ==
  IF b.value_map.t = "map" THEN ValueMap_value_set_str(b.value_map.m) ELSE <<>>

_get_where_str(b) ==
  IF b.where.k # "None" THEN Strip(<<"WHERE", " ">> \o RefStr(b.where))
  ELSE <<>>

(* the part of the args one _QueryArgs member contributes                  *)
ArgsPart(b, arg) ==
  IF arg = "VALUE"
  THEN IF b.value_map.t = "None" THEN <<>>
       ELSE IF b.value_map.t = "map" THEN ValueMap_get_values(b.value_map.m)
       ELSE ValueMapGroup_get_values
  ELSE IF b.where.k = "None" THEN <<>> ELSE RefValues(b.where)

_get_args(b, q_args) == Concat([i \in 1..Len(q_args) |-> ArgsPart(b, q_args[i])])

(* mutant: an UpdateQueryBuilder declares WHERE before VALUE               *)
_get_args_needed_where_first(b) ==
  IF b.cls = "InsertQueryBuilder" THEN <<"VALUE">>
  ELSE IF b.cls = "UpdateQueryBuilder" THEN <<"WHERE", "VALUE">>
  ELSE <<"WHERE">>

_get_args_needed(b) ==
  IF b.cls = "InsertQueryBuilder" THEN <<"VALUE">>
  ELSE IF b.cls = "UpdateQueryBuilder" THEN <<"VALUE", "WHERE">>
  ELSE <<"WHERE">>

Insert_get_query_str(b) ==
  <<"INSERT", " ", "INTO", " ">> \o b.table_name.v \o <<" ">> \o
  _get_columns_str(b) \o <<" ", "VALUES", " ">> \o _get_values_str(b)

(* mutant: the text is returned without strip()                            *)
Select_get_query_str_unstripped(b) ==
  <<"SELECT", " ">> \o _get_columns_str(b) \o <<" ", "FROM", " ">> \o
  b.table_name.v \o <<" ">> \o _get_where_str(b)

Select_get_query_str(b) ==
  Strip(<<"SELECT", " ">> \o _get_columns_str(b) \o <<" ", "FROM", " ">> \o
        b.table_name.v \o <<" ">> \o _get_where_str(b))

Update_get_query_str(b) ==
  Strip(<<"UPDATE", " ">> \o b.table_name.v \o <<" ", "SET", " ">> \o
        _get_value_set_str(b) \o <<" ">> \o _get_where_str(b))

(* mutant: the template is rendered whether or not a where is set         *)
Delete_get_query_str_unguarded(b) ==
  <<"DELETE", " ", "FROM", " ">> \o b.table_name.v \o <<" ">> \o
  _get_where_str(b)

Delete_get_query_str(b) ==
  IF b.where.k # "None"
  THEN <<"DELETE", " ", "FROM", " ">> \o b.table_name.v \o <<" ">> \o
       _get_where_str(b)
  ELSE <<>>

_get_query_str(b) ==
  IF b.cls = "InsertQueryBuilder" THEN Insert_get_query_str(b)
  ELSE IF b.cls = "SelectQueryBuilder" THEN Select_get_query_str(b)
  ELSE IF b.cls = "UpdateQueryBuilder" THEN Update_get_query_str(b)
  ELSE Delete_get_query_str(b)

HasTableName(b) == b.table_name.t # "None"

build(b) ==
  IF HasTableName(b)
  THEN Query(PyStr(_get_query_str(b)),
             PyTuple(_get_args(b, _get_args_needed(b))), PyNone)
  ELSE Query(PyNone, PyNone, PyStr(<<"No table name provided.">>))

-----------------------------------------------------------------------------
(* Inputs the actions draw from *)
Columns == {"a", "b"}
ScalarValues == {PyInt(1), PyInt(2)}
(* comparison calls <<operator, value>>: a scalar, no value, a list with a  *)
(* plain operator (equals([1, 2])) and a list with IN (is_in([1, 2]))      *)
Comparisons == { <<"=", PyInt(1)>>, <<"=", PyNone>>, <<"=", PyList(<<1, 2>>)>>,
                 <<"IN", PyList(<<1, 2>>)>> }
TableNames == {PyNone, PyStr(<<>>), PyStr(<<"T">>)}
Mappings == { <<[k |-> "x", v |-> 1], [k |-> "y", v |-> 2]>>,
              <<[k |-> "x", v |-> 3], [k |-> "y", v |-> 4]>> }
MappingLists == UNION {[1..n -> Mappings] : n \in 0..MaxRows}

(* the record of the last call: its receiver, what it returned or raised,  *)
(* and for build() the Query                                               *)
Call(op, obj, ret, raised, query) ==
  [op |-> op, obj |-> obj, ret |-> ret, raised |-> raised, query |-> query]

CondIds == 1..Len(conds)
SeqIds == 1..Len(seqs)
GroupIds == 1..Len(groups)
BuilderIds == 1..Len(builders)

(* chain and root tell which sequences were built from one another: a     *)
(* sequence built from a condition or a group starts a chain, with that    *)
(* condition or group as its root; a sequence built from a sequence        *)
(* (where, a comparison) continues that sequence's chain.                  *)
NewSequence(cls, chain, root) == [cls |-> cls, chain |-> chain, root |-> root]

NewChain == Cardinality({seqs[i].chain : i \in SeqIds}) + 1

(* squeeb/model and squeeb/db.py at import: no column class is cached, no   *)
(* model or database class is defined, Database.__tables__ is empty        *)
ModelInit ==
  /\ column_classes = <<>>
  /\ column_cache = <<>>
  /\ columns = <<>>
  /\ models = <<>>
  /\ tables = <<>>
  /\ indexes = <<>>
  /\ databases = <<>>
  /\ instances = <<>>
  /\ results = <<>>

Init ==
  /\ ModelInit
  /\ conds = <<>>
  /\ seqs = <<>>
  /\ seq_conditions = <<>>
  /\ groups = <<>>
  /\ group_conditions = <<>>
  /\ value_maps = <<>>
  /\ builders = <<>>
  /\ last = Call("init", NoneRef, NoneRef, "", NoQuery)
  /\ log = <<>>

(* where(column_name) -> MutableQueryCondition *)
Where(col) ==
  /\ conds' = Append(conds, NewCondition("MutableQueryCondition", col, PyNone,
                                         "None", FALSE))
  /\ last' = Call("where", NoneRef, Ref("cond", Len(conds) + 1), "", NoQuery)
  /\ UNCHANGED <<seqs, seq_conditions, groups, group_conditions, value_maps,
                 builders>>

(* a comparison method of a MutableQueryCondition the caller holds *)
Compare(m, op, value) ==
  /\ conds[m].cls = "MutableQueryCondition"
  /\ ~conds[m].internal
  /\ LET set == SetConditionOn(m, op, value)
     IN conds' = Append(set, QueryCondition_copy(set[m]))
  /\ last' = Call("compare", Ref("cond", m), Ref("cond", Len(conds) + 1), "",
                  NoQuery)
  /\ UNCHANGED <<seqs, seq_conditions, groups, group_conditions, value_maps,
                 builders>>

(* is_in(...) / is_not_in(...) of a MutableQueryCondition the caller holds *)
IsIn(m, op, values) == Compare(m, op, is_in_value(values))

(* _BaseQueryConditionSequence(first, junction), first a condition or a    *)
(* group: the elements are appended to self._conditions                    *)
Sequence_init(first, junction) ==
  seq_conditions \o <<first, JunctionElem(junction)>>

(* QueryCondition.and_ / or_ *)
ConditionJunction(c, j) ==
  /\ conds[c].cls = "QueryCondition"
  /\ seq_conditions' = Sequence_init(Ref("cond", c), j)
  /\ seqs' = Append(seqs, NewSequence("_BaseQueryConditionSequence", NewChain,
                                      Ref("cond", c)))
  /\ last' = Call("junction", Ref("cond", c), Ref("seq", Len(seqs) + 1), "",
                  NoQuery)
  /\ UNCHANGED <<conds, groups, group_conditions, value_maps, builders>>

(* sequence.where(column_name) *)
SequenceWhereColumn(s, col) ==
  /\ conds' = Append(conds, NewCondition("MutableQueryCondition", col, PyNone,
                                         "None", TRUE))
  /\ seq_conditions' = Append(SequenceConditions(s), Ref("cond", Len(conds) + 1))
  /\ seqs' = Append(seqs, NewSequence("MutableQueryConditionSequence",
                                      seqs[s].chain, seqs[s].root))
  /\ last' = Call("where", Ref("seq", s), Ref("seq", Len(seqs) + 1), "", NoQuery)
  /\ UNCHANGED <<groups, group_conditions, value_maps, builders>>

(* sequence.where(condition) *)
SequenceWhereCondition(s, c) ==
  /\ ~conds[c].internal
  /\ seq_conditions' = Append(SequenceConditions(s), Ref("cond", c))
  /\ seqs' = Append(seqs, NewSequence("MutableQueryConditionSequence",
                                      seqs[s].chain, seqs[s].root))
  /\ last' = Call("where", Ref("seq", s), Ref("seq", Len(seqs) + 1), "", NoQuery)
  /\ UNCHANGED <<conds, groups, group_conditions, value_maps, builders>>

(* MutableQueryConditionSequence._set_condition, through a comparison method*)
SequenceCompare(s, op, value) ==
  /\ seqs[s].cls = "MutableQueryConditionSequence"
  /\ LET L == SequenceConditions(s)
         e == L[Len(L)]
     IN IF e.k = "cond" /\ conds[e.id].cls = "MutableQueryCondition"
        THEN conds' = SetConditionOn(e.id, op, value)
        ELSE conds' = conds
  /\ seqs' = Append(seqs, NewSequence("QueryConditionSequence", seqs[s].chain,
                                      seqs[s].root))
  /\ last' = Call("compare", Ref("seq", s), Ref("seq", Len(seqs) + 1), "",
                  NoQuery)
  /\ UNCHANGED <<seq_conditions, groups, group_conditions, value_maps, builders>>

(* QueryConditionSequence.and_ / or_ *)
SequenceJunction(s, j) ==
  /\ seqs[s].cls = "QueryConditionSequence"
  /\ IF ~is_ready_for_condition(SequenceConditions(s))
     THEN /\ seq_conditions' = Append(SequenceConditions(s), JunctionElem(j))
          /\ last' = Call("junction", Ref("seq", s), Ref("seq", s), "", NoQuery)
     ELSE /\ seq_conditions' = seq_conditions
          /\ last' = Call("junction", Ref("seq", s), NoneRef,
                          "QueryConditionError", NoQuery)
  /\ UNCHANGED <<conds, seqs, groups, group_conditions, value_maps, builders>>

(* and_ / or_ on a sequence of a class that defines neither:               *)
(* _BaseQueryConditionSequence and MutableQueryConditionSequence are no    *)
(* _IQueryJuncture, so the attribute lookup raises AttributeError          *)
SequenceJunctionUndefined(s, j) ==
  /\ seqs[s].cls # "QueryConditionSequence"
  /\ last' = Call("junction", Ref("seq", s), NoneRef, "AttributeError", NoQuery)
  /\ UNCHANGED <<conds, seqs, seq_conditions, groups, group_conditions,
                 value_maps, builders>>

(* QueryConditionGroup(group_junction, conditions), conditions a list of   *)
(* conditions the caller holds                                             *)
GroupInit(j, cs) ==
  /\ \A i \in 1..Len(cs) : ~conds[cs[i]].internal
  /\ groups' = Append(groups, [junction |-> j])
  /\ group_conditions' =
       group_conditions \o [i \in 1..Len(cs) |-> Ref("cond", cs[i])]
  /\ last' = Call("group", NoneRef, Ref("group", Len(groups) + 1), "", NoQuery)
  /\ UNCHANGED <<conds, seqs, seq_conditions, value_maps, builders>>

(* QueryConditionGroup.and_ / or_, through __join *)
GroupJunction(g, j) ==
  /\ IF groups[g].junction = j
     THEN /\ UNCHANGED <<seqs, seq_conditions>>
          /\ last' = Call("junction", Ref("group", g), Ref("group", g), "",
                          NoQuery)
     ELSE /\ seq_conditions' = Sequence_init(Ref("group", g), j)
          /\ seqs' = Append(seqs, NewSequence("_BaseQueryConditionSequence",
                                              NewChain, Ref("group", g)))
          /\ last' = Call("junction", Ref("group", g), Ref("seq", Len(seqs) + 1),
                          "", NoQuery)
  /\ UNCHANGED <<conds, groups, group_conditions, value_maps, builders>>

-----------------------------------------------------------------------------
(* AbstractQueryBuilder(table_name) *)
NewBuilder(cls, table_name) ==
  /\ builders' = Append(builders, [cls |-> cls, table_name |-> table_name,
                                   value_map |-> NoValueMap, where |-> NoneRef])
  /\ last' = Call("builder", NoneRef, Ref("builder", Len(builders) + 1), "",
                  NoQuery)
  /\ UNCHANGED <<conds, seqs, seq_conditions, groups, group_conditions,
                 value_maps>>

(* _QueryValueMapGroup.create(value_maps): __init__ adds every map to       *)
(* self._value_maps                                                         *)
ValueMapGroup_create(ms) == value_maps \o ms

(* set_value(mapping) *)
SetValueMap(b, m) ==
  /\ builders' = [builders EXCEPT ![b].value_map = SingleValueMap(m)]
  /\ last' = Call("set_value", Ref("builder", b), Ref("builder", b), "", NoQuery)
  /\ UNCHANGED <<conds, seqs, seq_conditions, groups, group_conditions,
                 value_maps>>

(* set_value(list of mappings) *)
SetValueList(b, ms) ==
  /\ value_maps' = ValueMapGroup_create(ms)
  /\ builders' = [builders EXCEPT ![b].value_map = GroupValueMap]
  /\ last' = Call("set_value", Ref("builder", b), Ref("builder", b), "", NoQuery)
  /\ UNCHANGED <<conds, seqs, seq_conditions, groups, group_conditions>>

(* isinstance(value, _IQueryCondition): conditions (mutable or not),       *)
(* sequences (of every class) and groups                                   *)
IsIQueryCondition(r) == r.k \in {"cond", "seq", "group"}

(* builder.where = value, through __setattr__ *)
SetWhere(b, r) ==
  /\ IF IsIQueryCondition(r)
     THEN /\ builders' = [builders EXCEPT ![b].where = r]
          /\ last' = Call("set_where", Ref("builder", b), r, "", NoQuery)
     ELSE /\ builders' = builders
          /\ last' = Call("set_where", Ref("builder", b), r, "TypeError", NoQuery)
  /\ UNCHANGED <<conds, seqs, seq_conditions, groups, group_conditions,
                 value_maps>>

(* builder.build() *)
Build(b) ==
  /\ last' = Call("build", Ref("builder", b), NoneRef, "", build(builders[b]))
  /\ UNCHANGED <<conds, seqs, seq_conditions, groups, group_conditions,
                 value_maps, builders>>

(* the values a caller can assign to where: the objects it holds, and a    *)
(* value that is no condition                                              *)
HeldRefs ==
  {Ref("cond", c) : c \in {x \in CondIds : ~conds[x].internal}}
  \cup {Ref("seq", s) : s \in SeqIds}
  \cup {Ref("group", g) : g \in GroupIds}
  \cup {Ref("other", 0)}

-----------------------------------------------------------------------------
(* Specification of conditions and sequences, in any interleaving of the   *)
(* calls on every object the caller holds                                  *)

FitsConditions ==
  /\ Len(conds) <= MaxConds
  /\ Len(seqs) <= MaxSeqs
  /\ Len(seq_conditions) <= MaxSeqLen
  /\ Len(groups) <= MaxGroups
  /\ Len(group_conditions) <= MaxGroupLen

Next ==
  \/ UNCHANGED mvars /\ \E col \in Columns :
       Where(col) /\ FitsConditions' /\ UNCHANGED log
  \/ UNCHANGED mvars /\ \E m \in CondIds, value \in ScalarValues :
       Compare(m, "=", value) /\ FitsConditions' /\ UNCHANGED log
  \/ UNCHANGED mvars /\ \E c \in CondIds, j \in Junctions :
       ConditionJunction(c, j) /\ FitsConditions' /\ UNCHANGED log
  \/ UNCHANGED mvars /\ \E s \in SeqIds, col \in Columns :
       SequenceWhereColumn(s, col) /\ FitsConditions' /\ UNCHANGED log
  \/ UNCHANGED mvars /\ \E s \in SeqIds, c \in CondIds :
       SequenceWhereCondition(s, c) /\ FitsConditions' /\ UNCHANGED log
  \/ UNCHANGED mvars /\ \E s \in SeqIds, value \in ScalarValues :
       SequenceCompare(s, "=", value) /\ FitsConditions' /\ UNCHANGED log
  \/ UNCHANGED mvars /\ \E s \in SeqIds, j \in Junctions :
       SequenceJunction(s, j) /\ FitsConditions' /\ UNCHANGED log
  \/ UNCHANGED mvars /\ \E s \in SeqIds, j \in Junctions :
       SequenceJunctionUndefined(s, j) /\ FitsConditions' /\ UNCHANGED log

Spec == Init /\ [][Next]_vars

-----------------------------------------------------------------------------
(* Specification of one fluent chain                                       *)
(*   where(c1).op1(v1).J1.where(c2).op2(v2) ...                            *)
(* every call is made on the object the call before it returned.  log      *)
(* records the chain as written: one link [col, op, value, j] per where.   *)

(* the object the last call of a fluent chain returned *)
ChainHead ==
  IF seqs # <<>> THEN Ref("seq", Len(seqs))
  ELSE IF conds # <<>> THEN Ref("cond", Len(conds))
  ELSE NoneRef

Link(col) == [col |-> col, op |-> "None", value |-> PyNone, j |-> ""]

LogWhere(col) == log' = Append(log, Link(col))
LogCompare(op, value) ==
  log' = [log EXCEPT ![Len(log)].op = op, ![Len(log)].value = value]
LogJunction(j) == log' = [log EXCEPT ![Len(log)].j = j]

NextChain ==
  \/ UNCHANGED mvars /\ \E col \in Columns :
       /\ ChainHead = NoneRef
       /\ Where(col) /\ LogWhere(col)
  \/ UNCHANGED mvars /\ \E op \in Operators \ {"IN"}, value \in ScalarValues \cup {PyNone} :
       /\ ChainHead.k = "cond"
       /\ Compare(ChainHead.id, op, value) /\ LogCompare(op, value)
  \/ UNCHANGED mvars /\ \E j \in Junctions :
       /\ ChainHead.k = "cond"
       /\ ConditionJunction(ChainHead.id, j) /\ LogJunction(j)
  \/ UNCHANGED mvars /\ \E col \in Columns :
       /\ ChainHead.k = "seq"
       /\ is_ready_for_condition(SequenceConditions(ChainHead.id))
       /\ Len(log) < MaxChain
       /\ SequenceWhereColumn(ChainHead.id, col) /\ LogWhere(col)
  \/ UNCHANGED mvars /\ \E op \in Operators \ {"IN"}, value \in ScalarValues \cup {PyNone} :
       /\ ChainHead.k = "seq"
       /\ SequenceCompare(ChainHead.id, op, value) /\ LogCompare(op, value)
  \/ UNCHANGED mvars /\ \E j \in Junctions :
       /\ ChainHead.k = "seq"
       /\ ~is_ready_for_condition(SequenceConditions(ChainHead.id))
       /\ SequenceJunction(ChainHead.id, j) /\ LogJunction(j)

SpecChain == Init /\ [][NextChain]_vars

(* the text and the args the chain in log is written to produce *)
ChainFragment(l) == <<l.col, " ", l.op, " ", "?">>

RECURSIVE ChainText(_)
ChainText(ls) ==
  IF ls = <<>> THEN <<>>
  ELSE ChainFragment(ls[1]) \o
       (IF Len(ls) > 1 THEN JunctionValue(ls[1].j) ELSE <<>>) \o
       ChainText(Tail(ls))

ChainArgs(ls) == [i \in 1..Len(ls) |-> ls[i].value]

ChainIsComplete ==
  /\ log # <<>>
  /\ last.op = "compare"
  /\ \A i \in 1..Len(log) : log[i].value # PyNone

(* C2: a fluent chain of n comparisons with scalar values, built before    *)
(* any other sequence exists, renders as its fragments `ci opi ?` in chain *)
(* order separated by the junction keywords chosen, and its value args are *)
(* (v1, ..., vn) in the same order.                                        *)
C2_FluentChainRendersInOrder ==
  ChainIsComplete =>
    /\ RefStr(last.ret) = ChainText(log)
    /\ RefValues(last.ret) = ChainArgs(log)

(* a chain of three comparisons, with both junctions and different values *)
C2_Witness ==
  /\ ChainIsComplete
  /\ Len(log) = 3
  /\ log[1].j = "AND" /\ log[2].j = "OR"
  /\ log[1].col # log[2].col
  /\ log[1].value # log[3].value
  /\ RefStr(last.ret) = ChainText(log)

-----------------------------------------------------------------------------
(* Specification of one builder: it is constructed with a class and a      *)
(* table name, and then given value maps and where conditions and built,   *)
(* in any order, while one fluent chain makes the conditions: a condition, *)
(* a group of that condition, the sequences that follow from it.           *)

InitBuild ==
  /\ ModelInit
  /\ conds = <<>>
  /\ seqs = <<>>
  /\ seq_conditions = <<>>
  /\ groups = <<>>
  /\ group_conditions = <<>>
  /\ value_maps = <<>>
  /\ \E cls \in BuilderClasses, table_name \in TableNames :
       builders = <<[cls |-> cls, table_name |-> table_name,
                     value_map |-> NoValueMap, where |-> NoneRef]>>
  /\ last = Call("builder", NoneRef, Ref("builder", 1), "", NoQuery)
  /\ log = <<>>

NextBuild ==
  \/ UNCHANGED mvars /\ \E col \in {"a"} :
       /\ ChainHead = NoneRef
       /\ Where(col) /\ UNCHANGED log
  \/ UNCHANGED mvars /\ \E cmp \in Comparisons :
       /\ ChainHead.k = "cond"
       /\ Compare(ChainHead.id, cmp[1], cmp[2]) /\ UNCHANGED log
  \/ UNCHANGED mvars /\ \E j \in {"AND"} :
       /\ ChainHead.k = "cond"
       /\ ConditionJunction(ChainHead.id, j) /\ FitsConditions' /\ UNCHANGED log
  \/ UNCHANGED mvars /\ \E col \in {"a"} :
       /\ ChainHead.k = "seq"
       /\ is_ready_for_condition(SequenceConditions(ChainHead.id))
       /\ SequenceWhereColumn(ChainHead.id, col) /\ FitsConditions'
       /\ UNCHANGED log
  \/ UNCHANGED mvars /\ \E cmp \in Comparisons :
       /\ ChainHead.k = "seq"
       /\ SequenceCompare(ChainHead.id, cmp[1], cmp[2]) /\ FitsConditions'
       /\ UNCHANGED log
  \/ UNCHANGED mvars /\ \E j \in {"AND"} :
       /\ ChainHead.k = "seq"
       /\ SequenceJunction(ChainHead.id, j) /\ FitsConditions' /\ UNCHANGED log
  \/ UNCHANGED mvars /\ \E j \in {"AND"} :
       /\ ChainHead.k = "cond"
       /\ conds[ChainHead.id].cls = "QueryCondition"
       /\ GroupInit(j, <<ChainHead.id>>) /\ FitsConditions' /\ UNCHANGED log
  \/ UNCHANGED mvars /\ \E m \in Mappings :
       SetValueMap(1, m) /\ UNCHANGED log
  \/ UNCHANGED mvars /\ \E r \in HeldRefs :
       SetWhere(1, r) /\ UNCHANGED log
  \/ UNCHANGED mvars /\ Build(1) /\ UNCHANGED log

SpecBuild == InitBuild /\ [][NextBuild]_vars

-----------------------------------------------------------------------------
(* Claims about build(), under SpecBuild.  Build changes nothing but last, *)
(* so in a state with last.op = "build" the builder and the heap are those *)
(* the Query in last.query was built from.                                 *)

Built == last.op = "build"
BuiltBuilder == builders[last.obj.id]

(* a resolved condition, a resolved sequence or a group *)
IsResolved(r) ==
  \/ r.k = "cond" /\ conds[r.id].cls = "QueryCondition"
  \/ r.k = "seq" /\ seqs[r.id].cls = "QueryConditionSequence"
  \/ r.k = "group"

(* C1: in every Query built without an error the number of `?`            *)
(* placeholders in the text equals the length of the args tuple.           *)
C1_PlaceholdersMatchArgs ==
  (Built /\ last.query.error = PyNone) =>
    CountPlaceholders(last.query.query.v) = Len(last.query.args.v)

(* the SET clause written out for a value map: c1 = ?, ..., cn = ?        *)
RECURSIVE ExpectedSetClause(_)
ExpectedSetClause(m) ==
  IF m = <<>> THEN <<>>
  ELSE <<m[1].k, " ", "=", " ", "?">> \o
       (IF Len(m) > 1 THEN <<",", " ">> ELSE <<>>) \o ExpectedSetClause(Tail(m))

ExpectedUpdateText(b) ==
  <<"UPDATE", " ">> \o b.table_name.v \o <<" ", "SET", " ">> \o
  ExpectedSetClause(b.value_map.m) \o <<" ", "WHERE", " ">> \o RefStr(b.where)

EndsInBlank(str) == str = <<>> \/ str[Len(str)] = " "

UpdateWithMapAndWhere ==
  /\ Built
  /\ BuiltBuilder.cls = "UpdateQueryBuilder"
  /\ HasTableName(BuiltBuilder)
  /\ BuiltBuilder.value_map.t = "map"
  /\ IsResolved(BuiltBuilder.where)

(* C7: an UpdateQueryBuilder with a single value map VM and a resolved     *)
(* where W builds `UPDATE T SET c1 = ?, ..., cn = ? WHERE W` and the args  *)
(* are the values of VM in insertion order followed by the values of W.    *)
(* The text is the template with surrounding blanks stripped, so it is the *)
(* template itself unless W renders empty or with a blank at its end.      *)
C7_UpdateValueArgsPrecedeWhereArgs ==
  UpdateWithMapAndWhere =>
    /\ last.query.error = PyNone
    /\ last.query.args =
         PyTuple([i \in 1..Len(BuiltBuilder.value_map.m) |->
                    PyInt(BuiltBuilder.value_map.m[i].v)]
                 \o RefValues(BuiltBuilder.where))
    /\ last.query.query = PyStr(Strip(ExpectedUpdateText(BuiltBuilder)))
    /\ ~EndsInBlank(RefStr(BuiltBuilder.where)) =>
         last.query.query = PyStr(ExpectedUpdateText(BuiltBuilder))

(* an update with a two-column map and a two-condition sequence as where *)
C7_Witness ==
  /\ UpdateWithMapAndWhere
  /\ BuiltBuilder.where.k = "seq"
  /\ ~EndsInBlank(RefStr(BuiltBuilder.where))
  /\ Len(RefValues(BuiltBuilder.where)) >= 2
  /\ Len(last.query.args.v) >= 4
  /\ last.query.query = PyStr(ExpectedUpdateText(BuiltBuilder))

DeleteWithoutWhere ==
  /\ Built
  /\ BuiltBuilder.cls = "DeleteQueryBuilder"
  /\ HasTableName(BuiltBuilder)
  /\ BuiltBuilder.where = NoneRef

(* C8: a DeleteQueryBuilder with a table name and no where condition       *)
(* builds the empty text, empty args and no error.                         *)
C8_DeleteWithoutWhereIsEmpty ==
  DeleteWithoutWhere => last.query = Query(PyStr(<<>>), PyTuple(<<>>), PyNone)

C8_Witness ==
  /\ DeleteWithoutWhere
  /\ BuiltBuilder.table_name = PyStr(<<"T">>)
  /\ last.query.query = PyStr(<<>>)

PlainSelect ==
  /\ Built
  /\ BuiltBuilder.cls = "SelectQueryBuilder"
  /\ BuiltBuilder.table_name = PyStr(<<"T">>)
  /\ BuiltBuilder.value_map = NoValueMap
  /\ BuiltBuilder.where = NoneRef

(* C17: a SelectQueryBuilder with table name T, no value map and no where  *)
(* builds the text `SELECT * FROM T`, with no WHERE keyword and no         *)
(* trailing blank, an empty args tuple and no error.                       *)
C17_PlainSelect ==
  PlainSelect =>
    last.query = Query(PyStr(<<"SELECT", " ", "*", " ", "FROM", " ", "T">>),
                       PyTuple(<<>>), PyNone)

(* a plain select built while conditions exist that were not assigned *)
C17_Witness ==
  /\ PlainSelect
  /\ conds # <<>>
  /\ last.query.query.v = <<"SELECT", " ", "*", " ", "FROM", " ", "T">>

WhereRendersEmpty ==
  /\ Built
  /\ BuiltBuilder.cls \in {"SelectQueryBuilder", "UpdateQueryBuilder",
                          "DeleteQueryBuilder"}
  /\ BuiltBuilder.table_name = PyStr(<<"T">>)
  /\ BuiltBuilder.where # NoneRef
  /\ RefStr(BuiltBuilder.where) = <<>>

(* C27: when the where condition assigned to a Select, Update or Delete    *)
(* builder renders as the empty string, the built text contains no WHERE   *)
(* keyword and the args contain no value taken from that condition.        *)
C27_EmptyWhereIsLeftOut ==
  WhereRendersEmpty =>
    /\ \A i \in 1..Len(last.query.query.v) : last.query.query.v[i] # "WHERE"
    /\ last.query.args =
         PyTuple(IF BuiltBuilder.cls = "UpdateQueryBuilder"
                 THEN ArgsPart(BuiltBuilder, "VALUE") ELSE <<>>)

(* C9: with a missing (None) or empty table name, build() returns a Query  *)
(* with error set, no text and no args.                                    *)
C9_BlankTableNameIsAnError ==
  (Built /\ BuiltBuilder.table_name \in {PyNone, PyStr(<<>>)}) =>
    /\ last.query.error # PyNone
    /\ last.query.query = PyNone
    /\ last.query.args = PyNone

(* C10: assigning where succeeds only for a resolved condition, a resolved *)
(* sequence or a group; anything else raises TypeError.                    *)
C10_WhereAcceptsOnlyResolved ==
  last.op = "set_where" =>
    (last.raised = "" <=> IsResolved(last.ret))

-----------------------------------------------------------------------------
(* Specification of value maps: builders are constructed, given single     *)
(* mappings and lists of mappings, and built, in any order.  log[b] is the *)
(* value the last set_value call on builder b was given.                   *)

Given(is_list, rows) == [set |-> TRUE, is_list |-> is_list, rows |-> rows]
NotGiven == [set |-> FALSE, is_list |-> FALSE, rows |-> <<>>]

NextValues ==
  \/ UNCHANGED mvars /\ \E cls \in {"InsertQueryBuilder", "UpdateQueryBuilder"} :
       /\ Len(builders) < MaxBuilders
       /\ NewBuilder(cls, PyStr(<<"T">>))
       /\ log' = Append(log, NotGiven)
  \/ UNCHANGED mvars /\ \E b \in BuilderIds, m \in Mappings :
       /\ SetValueMap(b, m)
       /\ log' = [log EXCEPT ![b] = Given(FALSE, <<m>>)]
  \/ UNCHANGED mvars /\ \E b \in BuilderIds, ms \in MappingLists :
       /\ SetValueList(b, ms)
       /\ Len(value_maps') <= MaxValueMaps
       /\ log' = [log EXCEPT ![b] = Given(TRUE, ms)]
  \/ UNCHANGED mvars /\ \E b \in BuilderIds :
       Build(b) /\ UNCHANGED log

SpecValues == Init /\ [][NextValues]_vars

(* the column list, the placeholder tuples and the values written out for  *)
(* the rows a set_value call was given                                     *)
RECURSIVE ExpectedNames(_)
ExpectedNames(m) ==
  IF m = <<>> THEN <<>>
  ELSE <<m[1].k>> \o (IF Len(m) > 1 THEN <<",", " ">> ELSE <<>>) \o
       ExpectedNames(Tail(m))

ExpectedColumns(rows) ==
  IF rows = <<>> THEN <<>> ELSE <<"(">> \o ExpectedNames(rows[1]) \o <<")">>

RECURSIVE ExpectedMarks(_)
ExpectedMarks(m) ==
  IF m = <<>> THEN <<>>
  ELSE <<"?">> \o (IF Len(m) > 1 THEN <<",", " ">> ELSE <<>>) \o
       ExpectedMarks(Tail(m))

RECURSIVE ExpectedTuples(_)
ExpectedTuples(rows) ==
  IF rows = <<>> THEN <<>>
  ELSE <<"(">> \o ExpectedMarks(rows[1]) \o <<")">> \o
       (IF Len(rows) > 1 THEN <<",", " ">> ELSE <<>>) \o
       ExpectedTuples(Tail(rows))

RECURSIVE ExpectedFlatValues(_)
ExpectedFlatValues(rows) ==
  IF rows = <<>> THEN <<>>
  ELSE [i \in 1..Len(rows[1]) |-> PyInt(rows[1][i].v)] \o
       ExpectedFlatValues(Tail(rows))

ExpectedRowValues(rows) ==
  [r \in 1..Len(rows) |-> PyTuple([i \in 1..Len(rows[r]) |-> rows[r][i].v])]

(* C5: after set_value(v) the column list, the placeholder string and the  *)
(* value args of the builder come from v only (the value args as the flat  *)
(* values of v or as one tuple per row of v).                              *)
C5_SetValueReplaces ==
  last.op = "set_value" =>
    LET b == builders[last.obj.id]
        rows == log[last.obj.id].rows
    IN /\ _get_columns_str(b) = ExpectedColumns(rows)
       /\ _get_values_str(b) = ExpectedTuples(rows)
       /\ ArgsPart(b, "VALUE") \in
            {ExpectedFlatValues(rows), ExpectedRowValues(rows)}

IdenticalColumns(rows) ==
  \A r \in 1..Len(rows) :
    /\ Len(rows[r]) = Len(rows[1])
    /\ \A i \in 1..Len(rows[r]) : rows[r][i].k = rows[1][i].k

InsertOfRows ==
  /\ Built
  /\ BuiltBuilder.cls = "InsertQueryBuilder"
  /\ BuiltBuilder.value_map.t = "group"
  /\ log[last.obj.id].rows # <<>>
  /\ IdenticalColumns(log[last.obj.id].rows)

(* C6: an InsertQueryBuilder given a list of value maps with identical     *)
(* columns builds `INSERT INTO T (cols) VALUES (?, ...), (?, ...)`, one    *)
(* tuple per row, and the args are the flat values by row, then column.    *)
C6_InsertRowsFlatArgs ==
  InsertOfRows =>
    LET rows == log[last.obj.id].rows
    IN /\ last.query.query =
            PyStr(<<"INSERT", " ", "INTO", " ">> \o BuiltBuilder.table_name.v \o
                  <<" ">> \o ExpectedColumns(rows) \o <<" ", "VALUES", " ">> \o
                  ExpectedTuples(rows))
       /\ last.query.args = PyTuple(ExpectedFlatValues(rows))

UpdateOfRows ==
  /\ Built
  /\ BuiltBuilder.cls = "UpdateQueryBuilder"
  /\ BuiltBuilder.value_map.t = "group"
  /\ Len(log[last.obj.id].rows) >= 2

(* C11: building an UpdateQueryBuilder whose value was set to a list of    *)
(* mappings raises an error and returns no Query with SQL text.            *)
C11_UpdateOfRowsRaises ==
  UpdateOfRows => (last.raised # "" /\ last.query = NoQuery)

-----------------------------------------------------------------------------
(* Claims about sequences, under Spec *)

SeqStr(s) == Sequence_str(SequenceConditions(s))
SeqValues(s) == Sequence_get_values(SequenceConditions(s))

(* the step is a call that made or extended a sequence: and_ / or_ on a    *)
(* condition, where(...) or a comparison on a sequence, and_ / or_ on a    *)
(* sequence; last'.ret is the sequence it returned                         *)
SequenceStep == last' # last /\ last'.ret.k = "seq"

(* C3: making or extending one sequence never changes the rendered string  *)
(* or the value args of a sequence built independently, from another       *)
(* condition.                                                              *)
C3_SequencesAreIndependent ==
  [][SequenceStep =>
       \A t \in SeqIds :
         seqs[t].root # seqs'[last'.ret.id].root =>
           /\ SeqStr(t)' = SeqStr(t)
           /\ SeqValues(t)' = SeqValues(t)]_vars

(* the step is a call on sequence t or on a sequence made from it later    *)
CallOnOrAfter(t) ==
  /\ last' # last
  /\ last'.obj.k = "seq"
  /\ last'.obj.id >= t
  /\ seqs[last'.obj.id].chain = seqs[t].chain

(* C4: once a comparison has returned a resolved sequence, its string and  *)
(* its value args never change by a later and_, or_, where(...) or         *)
(* comparison call on it or on the objects those calls return.             *)
C4_ResolvedSequenceNeverChanges ==
  [][\A t \in SeqIds :
       (seqs[t].cls = "QueryConditionSequence" /\ CallOnOrAfter(t)) =>
         /\ SeqStr(t)' = SeqStr(t)
         /\ SeqValues(t)' = SeqValues(t)]_vars

(* the step is and_ / or_ called on sequence object whose element list     *)
(* ends in a Junction                                                      *)
JunctionOnReadySequence ==
  /\ last' # last
  /\ last'.op = "junction"
  /\ last'.obj.k = "seq"
  /\ is_ready_for_condition(SequenceConditions(last'.obj.id))

(* C12: and_ / or_ on a sequence whose last element is already a Junction  *)
(* raises QueryConditionError and leaves the element list unchanged.       *)
C12_JunctionTwiceRaises ==
  [][JunctionOnReadySequence =>
       /\ last'.raised = "QueryConditionError"
       /\ seq_conditions' = seq_conditions]_vars

(* the list begins with a condition or group and no two neighbours are     *)
(* both Junctions or both conditions/groups                                *)
Alternates(L) ==
  /\ L[1].k # "junction"
  /\ \A i \in 1..(Len(L) - 1) : (L[i].k = "junction") # (L[i + 1].k = "junction")

(* C13: the element list of every condition sequence begins with a         *)
(* condition or group and strictly alternates conditions/groups with       *)
(* Junctions.                                                              *)
C13_ElementsAlternate ==
  \A s \in SeqIds : Alternates(SequenceConditions(s))

-----------------------------------------------------------------------------
(* Specification of rendering: one UpdateQueryBuilder (its args are the    *)
(* value args and the where args) and one fluent chain, as in SpecBuild,   *)
(* with groups, lists of mappings, and the calls that render:              *)
(* str(x) and x.value_args on a condition, a sequence or a group,          *)
(* value_args on the builder's value map, and build().                     *)

(* what a rendering call returns in the current state, as the text and the *)
(* args of a Query record                                                  *)
RenderResult(op, r) ==
  IF op = "str" THEN Query(PyStr(RefStr(r)), PyNone, PyNone)
  ELSE IF op = "value_args" THEN Query(PyNone, PyTuple(RefValues(r)), PyNone)
  ELSE IF op = "map_value_args"
       THEN Query(PyNone, PyTuple(ArgsPart(builders[r.id], "VALUE")), PyNone)
  ELSE build(builders[r.id])

(* str(x), x a condition, a sequence or a group *)
Str(r) ==
  /\ last' = Call("str", r, NoneRef, "", RenderResult("str", r))
  /\ UNCHANGED <<conds, seqs, seq_conditions, groups, group_conditions,
                 value_maps, builders>>

(* x.value_args, x a condition, a sequence or a group *)
ValueArgs(r) ==
  /\ last' = Call("value_args", r, NoneRef, "", RenderResult("value_args", r))
  /\ UNCHANGED <<conds, seqs, seq_conditions, groups, group_conditions,
                 value_maps, builders>>

(* mutant: reading the args of a group takes the value maps off its list   *)
ValueMapValueArgs_consuming(b) ==
  /\ builders[b].value_map.t # "None"
  /\ last' = Call("map_value_args", Ref("builder", b), NoneRef, "",
                  RenderResult("map_value_args", Ref("builder", b)))
  /\ value_maps' = IF builders[b].value_map.t = "group" THEN <<>> ELSE value_maps
  /\ UNCHANGED <<conds, seqs, seq_conditions, groups, group_conditions,
                 builders>>

(* list(builder._value_map.value_args), the value map a mapping or a group *)
ValueMapValueArgs(b) ==
  /\ builders[b].value_map.t # "None"
  /\ last' = Call("map_value_args", Ref("builder", b), NoneRef, "",
                  RenderResult("map_value_args", Ref("builder", b)))
  /\ UNCHANGED <<conds, seqs, seq_conditions, groups, group_conditions,
                 value_maps, builders>>

(* the objects str() and value_args are called on, and that are assigned   *)
(* to where: the object the chain's last call returned, the groups, and    *)
(* the builder's where                                                     *)
Rendered ==
  {r \in HeldRefs :
     /\ IsIQueryCondition(r)
     /\ r = ChainHead \/ r.k = "group" \/ r = builders[1].where}

InitRender ==
  /\ ModelInit
  /\ conds = <<>>
  /\ seqs = <<>>
  /\ seq_conditions = <<>>
  /\ groups = <<>>
  /\ group_conditions = <<>>
  /\ value_maps = <<>>
  /\ builders = <<[cls |-> "UpdateQueryBuilder", table_name |-> PyStr(<<"T">>),
                   value_map |-> NoValueMap, where |-> NoneRef]>>
  /\ last = Call("builder", NoneRef, Ref("builder", 1), "", NoQuery)
  /\ log = <<>>

NextRender ==
  \/ UNCHANGED mvars /\ \E col \in {"a"} :
       /\ ChainHead = NoneRef
       /\ Where(col) /\ UNCHANGED log
  \/ UNCHANGED mvars /\ \E value \in {PyInt(1)} :
       /\ ChainHead.k = "cond"
       /\ Compare(ChainHead.id, "=", value) /\ UNCHANGED log
  \/ UNCHANGED mvars /\ \E j \in {"AND"} :
       /\ ChainHead.k = "cond"
       /\ ConditionJunction(ChainHead.id, j) /\ FitsConditions' /\ UNCHANGED log
  \/ UNCHANGED mvars /\ \E col \in {"a"} :
       /\ ChainHead.k = "seq"
       /\ SequenceWhereColumn(ChainHead.id, col) /\ FitsConditions'
       /\ UNCHANGED log
  \/ UNCHANGED mvars /\ \E value \in {PyInt(1)} :
       /\ ChainHead.k = "seq"
       /\ SequenceCompare(ChainHead.id, "=", value) /\ FitsConditions'
       /\ UNCHANGED log
  \/ UNCHANGED mvars /\ \E j \in {"AND"} :
       /\ ChainHead.k = "seq"
       /\ SequenceJunction(ChainHead.id, j) /\ FitsConditions' /\ UNCHANGED log
  \/ UNCHANGED mvars /\ \E j \in {"AND"} :
       /\ ChainHead.k = "cond"
       /\ conds[ChainHead.id].cls = "QueryCondition"
       /\ GroupInit(j, <<ChainHead.id>>) /\ FitsConditions' /\ UNCHANGED log
  \/ UNCHANGED mvars /\ \E g \in GroupIds, j \in Junctions :
       GroupJunction(g, j) /\ FitsConditions' /\ UNCHANGED log
  \/ UNCHANGED mvars /\ \E m \in Mappings :
       /\ m[1].v = 1
       /\ SetValueMap(1, m) /\ UNCHANGED log
  \/ UNCHANGED mvars /\ \E ms \in MappingLists :
       /\ Len(ms) = 1 /\ ms[1][1].v = 1
       /\ SetValueList(1, ms)
       /\ Len(value_maps') <= MaxValueMaps
       /\ UNCHANGED log
  \/ UNCHANGED mvars /\ \E r \in Rendered :
       SetWhere(1, r) /\ UNCHANGED log
  \/ UNCHANGED mvars /\ \E r \in Rendered :
       Str(r) /\ UNCHANGED log
  \/ UNCHANGED mvars /\ \E r \in Rendered :
       ValueArgs(r) /\ UNCHANGED log
  \/ UNCHANGED mvars /\ ValueMapValueArgs(1) /\ UNCHANGED log
  \/ UNCHANGED mvars /\ Build(1) /\ UNCHANGED log

SpecRender == InitRender /\ [][NextRender]_vars

-----------------------------------------------------------------------------
(* Claims about rendering, under SpecRender.  The rendering calls change   *)
(* nothing but last, so in a state with last.op = "str" the element list   *)
(* is the one that was rendered.                                           *)

RECURSIVE ElementsText(_)
ElementsText(L) ==
  IF L = <<>> THEN <<>> ELSE ElemStr(L[1]) \o ElementsText(Tail(L))

StrOfSequence == last.op = "str" /\ last.obj.k = "seq"

(* C14: a sequence whose last element is a Junction renders as the empty   *)
(* string, and one whose last element is a condition renders as the string *)
(* forms of all its elements, concatenated in list order.                  *)
C14_SequenceRendersWhenComplete ==
  StrOfSequence =>
    LET L == SequenceConditions(last.obj.id)
    IN last.query.query =
         PyStr(IF L[Len(L)].k = "junction" THEN <<>> ELSE ElementsText(L))

(* str() of a sequence of a condition, a Junction, a condition, a Junction *)
C14_Witness ==
  /\ StrOfSequence
  /\ Len(SequenceConditions(last.obj.id)) >= 4
  /\ SequenceConditions(last.obj.id)[Len(SequenceConditions(last.obj.id))].k
       = "junction"
  /\ last.query.query = PyStr(<<>>)

RenderOps == {"str", "value_args", "map_value_args", "build"}

(* the step is a rendering call *)
RenderStep == last' # last /\ last'.op \in RenderOps

(* what the call recorded in c returns when it is made again *)
RenderResultOf(c) == RenderResult(c.op, c.obj)

(* C18: str(), value_args and build() leave every condition, every element *)
(* list, every value map and every builder field unchanged, and the same   *)
(* call made again returns an equal result.                                *)
C18_RenderingHasNoEffect ==
  /\ [][RenderStep =>
          UNCHANGED <<conds, seqs, seq_conditions, groups, group_conditions,
                      value_maps, builders>>]_vars
  /\ [](last.op \in RenderOps => RenderResultOf(last) = last.query)

(* value_args read from a value map group of two rows *)
C18_Witness ==
  /\ last.op = "map_value_args"
  /\ builders[last.obj.id].value_map.t = "group"
  /\ Len(last.query.args.v) >= 2
  /\ RenderResultOf(last) = last.query

-----------------------------------------------------------------------------
(* Specification of conditions alone: mutable conditions are made by       *)
(* where(column) and every one is used for any number of comparison calls, *)
(* among them is_in / is_not_in with variadic arguments and with one list  *)
(* or tuple.  log[c] is the call that made condition c.                    *)

(* the argument tuples is_in / is_not_in are called with *)
InArguments ==
  { <<PyInt(1), PyInt(2)>>, <<PyInt(2), PyInt(1)>>, <<PyInt(1)>>,
    <<PyList(<<1, 2>>)>>, <<PyList(<<2, 1>>)>>, <<PyTuple(<<2, 1>>)>>,
    <<PyList(<<>>)>> }

Made(call, from, op, args) ==
  [call |-> call, from |-> from, op |-> op, args |-> args]

NextCondition ==
  \/ UNCHANGED mvars /\ \E col \in Columns :
       /\ Where(col) /\ FitsConditions'
       /\ log' = Append(log, Made("where", 0, "None", <<>>))
  \/ UNCHANGED mvars /\ \E m \in CondIds, cmp \in Comparisons :
       /\ cmp[1] \notin InOperators
       /\ Compare(m, cmp[1], cmp[2]) /\ FitsConditions'
       /\ log' = Append(log, Made("compare", m, cmp[1], <<cmp[2]>>))
  \/ UNCHANGED mvars /\ \E m \in CondIds, op \in InOperators, values \in InArguments :
       /\ IsIn(m, op, values) /\ FitsConditions'
       /\ log' = Append(log, Made("is_in", m, op, values))

SpecCondition == Init /\ [][NextCondition]_vars

(* the values a call of is_in / is_not_in passes: the elements of the one  *)
(* list or tuple, or the variadic arguments themselves                     *)
PassedValues(args) ==
  IF Len(args) = 1 /\ args[1].t \in {"list", "tuple"}
  THEN [i \in 1..Len(args[1].v) |-> PyInt(args[1].v[i])]
  ELSE args

IsInCall ==
  /\ last.op = "compare"
  /\ log[last.ret.id].call = "is_in"

(* C15: for is_in and is_not_in, with variadic arguments or with one list  *)
(* or tuple, the condition renders `col IN (?, ..., ?)` (or `NOT IN`) with *)
(* one placeholder per value passed, and its value args are the values     *)
(* passed, in input order.                                                 *)
C15_IsInKeepsEveryValueInOrder ==
  IsInCall =>
    LET c == conds[last.ret.id]
        made == log[last.ret.id]
        passed == PassedValues(made.args)
    IN /\ Condition_str(c) =
            <<conds[made.from].col, " ", made.op, " ", "(">> \o
            ExpectedMarks(passed) \o <<")">>
       /\ Condition_get_values(c) = passed

(* is_not_in(2, 1): variadic, the values not in ascending order *)
C15_Witness ==
  /\ IsInCall
  /\ log[last.ret.id].op = "NOT IN"
  /\ log[last.ret.id].args = <<PyInt(2), PyInt(1)>>
  /\ Condition_get_values(conds[last.ret.id]) = <<PyInt(2), PyInt(1)>>

(* C19: the Condition a comparison method returned keeps its column, its   *)
(* operator and its value, the elements of a list value included, under    *)
(* every later call.                                                       *)
C19_ReturnedConditionIsKept ==
  [][\A c \in CondIds :
       conds[c].cls = "QueryCondition" =>
         /\ conds'[c].col = conds[c].col
         /\ conds'[c].op = conds[c].op
         /\ conds'[c].value = conds[c].value]_vars

(* one mutable condition used for two comparisons with different lists:    *)
(* the first Condition returned still has the values it was given          *)
C19_Witness ==
  \E c1, c2 \in CondIds :
    /\ c1 < c2
    /\ log[c1].from # 0 /\ log[c1].from = log[c2].from
    /\ conds[c1].value.t = "list" /\ conds[c2].value.t = "list"
    /\ conds[c1].value # conds[c2].value
    /\ conds[c1].vid # 0
    /\ Condition_get_values(conds[c1]) = PassedValues(log[c1].args)

-----------------------------------------------------------------------------
(* Specification of single value maps: builders are constructed, given     *)
(* single mappings with one, two or three columns in different insertion   *)
(* orders, and built.  log[b] is the value the last set_value call on      *)
(* builder b was given.                                                    *)

OrderedMappings ==
  Mappings \cup
  { <<[k |-> "y", v |-> 5], [k |-> "x", v |-> 6]>>,
    <<[k |-> "z", v |-> 7]>>,
    <<[k |-> "z", v |-> 1], [k |-> "x", v |-> 9], [k |-> "y", v |-> 8]>> }

NextValueMap ==
  \/ UNCHANGED mvars /\ \E cls \in {"InsertQueryBuilder", "UpdateQueryBuilder"} :
       /\ Len(builders) < MaxBuilders
       /\ NewBuilder(cls, PyStr(<<"T">>))
       /\ log' = Append(log, NotGiven)
  \/ UNCHANGED mvars /\ \E b \in BuilderIds, m \in OrderedMappings :
       /\ SetValueMap(b, m)
       /\ log' = [log EXCEPT ![b] = Given(FALSE, <<m>>)]
  \/ UNCHANGED mvars /\ \E b \in BuilderIds :
       Build(b) /\ UNCHANGED log

SpecValueMap == Init /\ [][NextValueMap]_vars

SetValueOfMapping ==
  /\ last.op = "set_value"
  /\ builders[last.obj.id].value_map.t = "map"

(* C16: for a value map with columns c1..cn inserted in that order with    *)
(* values v1..vn, column_str is `(c1, ..., cn)`, values_str is n           *)
(* placeholders in parentheses, value_set_str is `c1 = ?, ..., cn = ?` and *)
(* value_args is (v1, ..., vn).                                            *)
C16_ValueMapKeepsInsertionOrder ==
  SetValueOfMapping =>
    LET m == builders[last.obj.id].value_map.m
        given == log[last.obj.id].rows[1]
    IN /\ ValueMap_column_str(m) = <<"(">> \o ExpectedNames(given) \o <<")">>
       /\ ValueMap_values_str(m) = <<"(">> \o ExpectedMarks(given) \o <<")">>
       /\ ValueMap_value_set_str(m) = ExpectedSetClause(given)
       /\ ValueMap_get_values(m) = ExpectedFlatValues(<<given>>)

(* a mapping whose columns were inserted as z, x, y *)
C16_Witness ==
  /\ SetValueOfMapping
  /\ Len(log[last.obj.id].rows[1]) = 3
  /\ ValueMap_column_str(builders[last.obj.id].value_map.m) =
       <<"(", "z", ",", " ", "x", ",", " ", "y", ")">>
  /\ ValueMap_get_values(builders[last.obj.id].value_map.m) =
       <<PyInt(1), PyInt(9), PyInt(8)>>

-----------------------------------------------------------------------------
(* Specification of groups: resolved conditions are made and passed, one   *)
(* or two at a time, to the constructor of QueryConditionGroup.  log[g] is *)
(* the list of conditions group g was constructed with.                    *)

(* the lists of one or two resolved conditions the caller holds *)
ConditionLists ==
  LET resolved == {c \in CondIds : conds[c].cls = "QueryCondition"}
  IN {<<c>> : c \in resolved} \cup {<<c, d>> : c \in resolved, d \in resolved}

NextGroups ==
  \/ UNCHANGED mvars /\ \E col \in Columns :
       Where(col) /\ FitsConditions' /\ UNCHANGED log
  \/ UNCHANGED mvars /\ \E m \in CondIds, value \in ScalarValues :
       Compare(m, "=", value) /\ FitsConditions' /\ UNCHANGED log
  \/ UNCHANGED mvars /\ \E j \in Junctions, cs \in ConditionLists :
       /\ GroupInit(j, cs) /\ FitsConditions'
       /\ log' = Append(log, cs)

SpecGroups == Init /\ [][NextGroups]_vars

(* the text and the values of the conditions cs, joined by junction j *)
RECURSIVE ExpectedGroupText(_, _)
ExpectedGroupText(j, cs) ==
  IF cs = <<>> THEN <<>>
  ELSE Condition_str(conds[cs[1]]) \o
       (IF Len(cs) > 1 THEN <<" ", j, " ">> ELSE <<>>) \o
       ExpectedGroupText(j, Tail(cs))

RECURSIVE ExpectedGroupValues(_)
ExpectedGroupValues(cs) ==
  IF cs = <<>> THEN <<>>
  ELSE Condition_get_values(conds[cs[1]]) \o ExpectedGroupValues(Tail(cs))

(* C20: a group renders exactly the conditions passed to its own           *)
(* constructor, in order, joined by its junction keyword inside one pair   *)
(* of parentheses, and its value args are those conditions' values in the  *)
(* same order, whatever other groups were constructed.                     *)
C20_GroupRendersItsOwnConditions ==
  \A g \in GroupIds :
    /\ Group_str(g) =
         <<"(">> \o ExpectedGroupText(groups[g].junction, log[g]) \o <<")">>
    /\ Group_get_values(g) = ExpectedGroupValues(log[g])

-----------------------------------------------------------------------------
(* Joining groups: conditions are made and resolved, groups are built from *)
(* them, and and_ / or_ is read on a group. log holds the Junction of the  *)
(* last and_ / or_ read.                                                    *)
NextJoin ==
  \/ UNCHANGED mvars /\ \E col \in Columns :
       Where(col) /\ FitsConditions' /\ UNCHANGED log
  \/ UNCHANGED mvars /\ \E m \in CondIds, value \in ScalarValues :
       Compare(m, "=", value) /\ FitsConditions' /\ UNCHANGED log
  \/ UNCHANGED mvars /\ \E j \in Junctions, cs \in ConditionLists :
       GroupInit(j, cs) /\ FitsConditions' /\ UNCHANGED log
  \/ UNCHANGED mvars /\ \E g \in GroupIds, j \in Junctions :
       /\ GroupJunction(g, j) /\ FitsConditions'
       /\ log' = <<j>>

SpecJoin == Init /\ [][NextJoin]_vars

GroupJoined == last.op = "junction" /\ last.obj.k = "group"

(* C21: and_ / or_ on a group leaves the group as it was; with the group's *)
(* own junction it returns that very group, and with the other junction it *)
(* returns a sequence whose elements are the group followed by the chosen  *)
(* Junction, which is ready for where.                                     *)
C21_GroupJoin ==
  /\ [][GroupJoined' /\ last' # last =>
          UNCHANGED <<groups, group_conditions>>]_vars
  /\ [](GroupJoined =>
          IF groups[last.obj.id].junction = log[1]
          THEN last.ret = last.obj
          ELSE /\ last.ret.k = "seq"
               /\ SequenceConditions(last.ret.id) =
                    <<last.obj, JunctionElem(log[1])>>
               /\ is_ready_for_condition(SequenceConditions(last.ret.id)))

-----------------------------------------------------------------------------
(* squeeb/model/columns.py: column constraints, TableColumn classes and    *)
(* the module-level cache __column_classes.                                *)
(*                                                                         *)
(*   column_classes  the TableColumn subclasses made so far                *)
(*   column_cache    __column_classes, a dict in insertion order           *)
(*   columns         the TableColumn instances (descriptors)               *)
MaxColumns == 3
MaxColumnClasses == 3

DataTypes == {"INTEGER", "TEXT"}

(* a ColumnConstraint, or None *)
Constraint(kind, autoincrement, table, column_name) ==
  [kind |-> kind, autoincrement |-> autoincrement,
   foreign_table_class |-> table, foreign_column_name |-> column_name]

NoConstraint == Constraint("None", FALSE, 0, PyNone)
PrimaryKey(autoincrement) == Constraint("PrimaryKey", autoincrement, 0, PyNone)

(* class TableColumnClass / TableColumnWithName: the three class variables *)
ColumnClass(data_type, column_name, constraint, base) ==
  [data_type |-> data_type, column_name |-> column_name,
   constraint |-> constraint, base |-> base]

CachedClass_never(cache, key) == 0

(* `key in __column_classes` and the lookup: the cached class, 0 if none   *)
CachedClass(cache, key) ==
  LET hits == {i \in 1..Len(cache) : cache[i].key = key}
  IN IF hits = {} THEN 0 ELSE cache[CHOOSE i \in hits : TRUE].cls

(* column(data_type, value, column_name, constraint) *)
Column(data_type, value, column_name, constraint) ==
  LET key == <<data_type, column_name, constraint>>
      cached == CachedClass(column_cache, key)
  IN /\ IF cached # 0
        THEN /\ columns' = Append(columns, [cls |-> cached, value |-> value])
             /\ last' = Call("column", NoneRef,
                             Ref("column", Len(columns) + 1), "", NoQuery)
             /\ UNCHANGED <<column_classes, column_cache>>
        ELSE IF data_type \notin DataTypes
        THEN /\ last' = Call("column", NoneRef, NoneRef, "TypeError", NoQuery)
             /\ UNCHANGED <<column_classes, column_cache, columns>>
        ELSE /\ column_classes' =
                  Append(column_classes,
                         ColumnClass(data_type, column_name, constraint, 0))
             /\ column_cache' =
                  Append(column_cache,
                         [key |-> key, cls |-> Len(column_classes) + 1])
             /\ columns' =
                  Append(columns, [cls |-> Len(column_classes) + 1,
                                   value |-> value])
             /\ last' = Call("column", NoneRef,
                             Ref("column", Len(columns) + 1), "", NoQuery)
     /\ UNCHANGED <<models, tables, indexes, databases, instances, results>>

(* the column classes, the cache and the instances, as one value *)
ColumnStore == [classes |-> column_classes, cache |-> column_cache,
                columns |-> columns]

(* copy_column(column, new_name, use_existing), with TableColumn.with_name, *)
(* on the store st: the store after the call, the instance returned (0 if  *)
(* none) and the exception raised                                          *)
copy_column(st, c, new_name, use_existing) ==
  LET cls == st.columns[c].cls
      K == st.classes[cls]
      key == <<K.data_type, new_name, K.constraint>>
      cached == CachedClass(st.cache, key)
      made(copied, classes) ==
        [st |-> [classes |-> classes,
                 cache |-> Append(st.cache, [key |-> key, cls |-> copied]),
                 columns |-> Append(st.columns,
                                    [cls |-> copied,
                                     value |-> st.columns[c].value])],
         ret |-> Len(st.columns) + 1, raised |-> ""]
  IN IF cached # 0
     THEN IF use_existing
          THEN [st |-> [st EXCEPT !.columns =
                          Append(st.columns,
                                 [cls |-> cached, value |-> st.columns[c].value])],
                ret |-> Len(st.columns) + 1, raised |-> ""]
          ELSE [st |-> st, ret |-> 0, raised |-> "ValueError"]
     ELSE IF K.column_name # PyNone
     THEN IF K.column_name # new_name
          THEN [st |-> st, ret |-> 0, raised |-> "ValueError"]
          ELSE made(cls, st.classes)
     ELSE made(Len(st.classes) + 1,
               Append(st.classes,
                      ColumnClass(K.data_type, new_name, K.constraint, cls)))

SetColumnStore(st) ==
  /\ column_classes' = st.classes
  /\ column_cache' = st.cache
  /\ columns' = st.columns

CopyColumn(c, new_name, use_existing) ==
  LET r == copy_column(ColumnStore, c, new_name, use_existing)
  IN /\ SetColumnStore(r.st)
     /\ last' = Call("copy_column", Ref("column", c),
                     IF r.ret = 0 THEN NoneRef ELSE Ref("column", r.ret),
                     r.raised, NoQuery)
     /\ UNCHANGED <<models, tables, indexes, databases, instances, results>>

ColumnIds == 1..Len(columns)

(* TableColumn.column_name, data_type and constraint of an instance *)
column_name(c) == column_classes[columns[c].cls].column_name
data_type(c) == column_classes[columns[c].cls].data_type
constraint(c) == column_classes[columns[c].cls].constraint

FitsColumns ==
  /\ Len(columns) <= MaxColumns
  /\ Len(column_classes) <= MaxColumnClasses

(* Columns: descriptors are requested and copied in any order. *)
NextColumns ==
  \/ \E dt \in DataTypes \cup {"varchar"}, name \in {PyNone, PyStr(<<"a">>)},
        c \in {NoConstraint, Constraint("NotNull", FALSE, 0, PyNone)} :
       /\ Column(dt, PyNone, name, c) /\ FitsColumns'
       /\ UNCHANGED <<qvars, log>>
  \/ \E c \in ColumnIds, name \in {PyStr(<<"a">>), PyStr(<<"b">>)}, use_existing \in BOOLEAN :
       /\ CopyColumn(c, name, use_existing) /\ FitsColumns'
       /\ UNCHANGED <<qvars, log>>

SpecColumns == Init /\ [][NextColumns]_vars

ColumnTriple(c) == <<data_type(c), column_name(c), constraint(c)>>

(* C25: whatever column and copy_column calls were made, two descriptors   *)
(* whose data type, column name and constraint are equal are instances of  *)
(* the same class, and no later call replaces a class in the cache.        *)
C25_OneClassPerTriple ==
  /\ [][\A i \in 1..Len(column_cache) :
          /\ i <= Len(column_cache')
          /\ column_cache'[i] = column_cache[i]]_vars
  /\ [](\A c, d \in ColumnIds :
          ColumnTriple(c) = ColumnTriple(d) => columns[c].cls = columns[d].cls)

(* two descriptors of one class, the second from a later request, one of   *)
(* them a copy under a new name                                            *)
C25_Witness ==
  \E c, d \in ColumnIds :
    /\ c < d
    /\ ColumnTriple(c) = ColumnTriple(d)
    /\ column_classes[columns[c].cls].base # 0
    /\ last.op = "column"

-----------------------------------------------------------------------------
(* squeeb/model/models.py, index.py and decorators.py: model classes.      *)
(*                                                                         *)
(*   models   the Model subclasses: dict holds the TableColumn attributes  *)
(*            in declaration order (the keys of __mapping__), indexes is   *)
(*            __indexes__, base the class a @table class was made from     *)
(*   indexes  the TableIndex objects                                       *)
(*   tables   Database.__tables__: the one list every Database subclass    *)
(*            reads, because no subclass is given a list of its own         *)
(*   databases  the classes made by make_database_class; 0 is Database     *)
MaxModels == 4
MaxIndexes == 2
MaxFields == 2
MaxSorted == 3
MaxDatabases == 2

ModelIds == 1..Len(models)

(* ModelNamespace.__setitem__ for each column assigned in the class body:  *)
(* a column whose class has no name is replaced by copy_column(value, key) *)
RECURSIVE ModelNamespace(_, _)
ModelNamespace(fields, st) ==
  IF fields = <<>> THEN [st |-> st, dict |-> <<>>]
  ELSE LET f == Head(fields)
           named == st.classes[st.columns[f.column].cls].column_name # PyNone
           r == IF named THEN [st |-> st, ret |-> f.column]
                ELSE copy_column(st, f.column, PyStr(<<f.name>>), TRUE)
           rest == ModelNamespace(Tail(fields), r.st)
       IN [st |-> rest.st,
           dict |-> <<[name |-> f.name, column |-> r.ret]>> \o rest.dict]

(* TableIndex._setup(table_model, default_name) on the index object ix;    *)
(* table_model.table_name is read on the class, where it is the property   *)
(* object itself                                                           *)
TableIndex_setup(ix, table_model, default_name) ==
  [ix EXCEPT
     !.table_model = table_model,
     !.index_name =
        IF ix.index_name # PyNone THEN ix.index_name
        ELSE IF default_name # PyNone THEN default_name
        ELSE PyStr(<<"<property object>", "_">> \o
                   Join(<<"-">>, [k \in 1..Len(ix.columns) |->
                                    column_name(ix.columns[k]).v]))]

(* class name(Model) with the column attributes fields and the index       *)
(* attributes ixs: the class body, then ModelMetaClass.__new__             *)
DefineModel(name, fields, ixs) ==
  LET ns == ModelNamespace(fields, ColumnStore)
      pks == {k \in 1..Len(ns.dict) :
                ns.st.classes[ns.st.columns[ns.dict[k].column].cls]
                  .constraint.kind = "PrimaryKey"}
      id == Len(models) + 1
      is_set_up(x) == \E k \in 1..Len(ixs) : ixs[k].index = x
      attr(x) == ixs[CHOOSE k \in 1..Len(ixs) : ixs[k].index = x].name
  IN /\ SetColumnStore(ns.st)
     /\ indexes' = [x \in DOMAIN indexes |->
                      IF is_set_up(x)
                      THEN TableIndex_setup(indexes[x], id, PyStr(<<attr(x)>>))
                      ELSE indexes[x]]
     /\ IF ns.dict # <<>> /\ pks = {}
        THEN /\ last' = Call("class", NoneRef, NoneRef, "TypeError", NoQuery)
             /\ UNCHANGED models
        ELSE /\ models' =
                  Append(models,
                         [name |-> name, dict |-> ns.dict,
                          indexes |-> [k \in 1..Len(ixs) |-> ixs[k].index],
                          table_name |-> PyNone,
                          id_key |-> IF pks = {} THEN ""
                                     ELSE ns.dict[CHOOSE k \in pks :
                                            \A l \in pks : l <= k].name,
                          base |-> 0, db_class |-> 0, initialized |-> FALSE])
             /\ last' = Call("class", NoneRef, Ref("model", id), "", NoQuery)
     /\ UNCHANGED <<tables, databases, instances, results>>

(* camel_to_snake_case(name, lowercase=True) for the class names used *)
camel_to_snake_case(name) ==
  CASE name = "Artist" -> "artist"
    [] name = "ItemRecord" -> "item_record"
    [] OTHER -> name

(* table(cls, db_class, table_name): the class TableClass(cls), named and  *)
(* registered with db_class                                                *)
Table(m, db_class, table_name) ==
  IF table_name.t = "str" /\ table_name.v = <<>>
  THEN /\ last' = Call("table", Ref("model", m), NoneRef, "TypeError", NoQuery)
       /\ UNCHANGED mvars
  ELSE /\ models' =
            Append(models,
                   [models[m] EXCEPT
                      !.table_name =
                         IF table_name # PyNone THEN table_name
                         ELSE PyStr(<<camel_to_snake_case(models[m].name),
                                      "s">>),
                      !.base = m, !.db_class = db_class])
       /\ tables' = Append(tables, Len(models) + 1)
       /\ last' = Call("table", Ref("model", m),
                       Ref("model", Len(models) + 1), "", NoQuery)
       /\ UNCHANGED <<column_classes, column_cache, columns, indexes,
                      databases, instances, results>>

(* str(constraint) for the constraints modelled *)
Constraint_str(c) ==
  CASE c.kind = "PrimaryKey" ->
         <<"PRIMARY KEY">> \o
         (IF c.autoincrement THEN <<" ", "AUTOINCREMENT">> ELSE <<>>)
    [] c.kind = "NotNull" -> <<"NOT NULL">>
    [] c.kind = "ForeignKey" ->
         <<"REFERENCES", " ", "\"">> \o models[c.foreign_table_class].table_name.v
         \o <<"\"(\"">> \o c.foreign_column_name.v \o <<"\")">>
    [] OTHER -> <<"None">>

TableColumn_str_unguarded(c) ==
  column_name(c).v \o <<" ", data_type(c), " ">> \o Constraint_str(constraint(c))

(* TableColumn.__str__ *)
TableColumn_str(c) ==
  column_name(c).v \o <<" ", data_type(c)>> \o
  (IF constraint(c) # NoConstraint
   THEN <<" ">> \o Constraint_str(constraint(c)) ELSE <<>>)

-----------------------------------------------------------------------------
(* CreateTableQueryBuilder (squeeb/query/queries.py) *)
NewCreateTable(m, is_temporary, if_not_exists, strict, without_rowid) ==
  /\ builders' =
       Append(builders,
              [cls |-> "CreateTableQueryBuilder", table_name |-> PyStr(<<>>),
               value_map |-> NoValueMap, where |-> NoneRef, table_model |-> m,
               is_temporary |-> is_temporary, if_not_exists |-> if_not_exists,
               strict |-> strict, without_rowid |-> without_rowid])
  /\ last' = Call("builder", NoneRef, Ref("builder", Len(builders) + 1), "",
                  NoQuery)
  /\ UNCHANGED <<conds, seqs, seq_conditions, groups, group_conditions,
                 value_maps, mvars>>

(* if_not_exists(), temp_table(), strict(), without_rowid() *)
CreateTableFlag(b, flag) ==
  /\ builders' =
       [builders EXCEPT
          ![b] = CASE flag = "if_not_exists" -> [@ EXCEPT !.if_not_exists = TRUE]
                   [] flag = "temp_table" -> [@ EXCEPT !.is_temporary = TRUE]
                   [] flag = "strict" -> [@ EXCEPT !.strict = TRUE]
                   [] flag = "without_rowid" -> [@ EXCEPT !.without_rowid = TRUE]]
  /\ last' = Call(flag, Ref("builder", b), Ref("builder", b), "", NoQuery)
  /\ UNCHANGED <<conds, seqs, seq_conditions, groups, group_conditions,
                 value_maps, mvars>>

CreateTable_get_columns_str(b) ==
  LET dict == models[b.table_model].dict
  IN Join(<<",", " ">>,
          [k \in 1..Len(dict) |-> TableColumn_str(dict[k].column)])

CreateTable_get_query_str(b) ==
  <<"CREATE", " ">> \o (IF b.is_temporary THEN <<"TEMPORARY">> ELSE <<>>) \o
  <<" ", "TABLE", " ">> \o
  (IF b.if_not_exists THEN <<"IF NOT EXISTS">> ELSE <<>>) \o <<" ">> \o
  b.table_name.v \o <<" ", "(">> \o CreateTable_get_columns_str(b) \o
  <<")", " ">> \o
  Join(<<",", " ">>,
       (IF b.strict THEN <<<<"STRICT">>>> ELSE <<>>) \o
       (IF b.without_rowid THEN <<<<"WITHOUT ROWID">>>> ELSE <<>>))

(* build() of a CreateTableQueryBuilder; rendering a ForeignKey reads      *)
(* __table_name__ of the referenced class, which only @table sets          *)
BuildCreateTable(b) ==
  LET B == builders[b]
      dict == models[B.table_model].dict
      unnamed(c) == /\ constraint(c).kind = "ForeignKey"
                    /\ models[constraint(c).foreign_table_class].table_name
                         = PyNone
  IN /\ IF \E k \in 1..Len(dict) : unnamed(dict[k].column)
        THEN last' = Call("build", Ref("builder", b), NoneRef,
                          "AttributeError", NoQuery)
        ELSE last' = Call("build", Ref("builder", b), NoneRef, "",
                          IF HasTableName(B)
                          THEN Query(PyStr(CreateTable_get_query_str(B)),
                                     PyTuple(<<>>), PyNone)
                          ELSE Query(PyNone, PyNone,
                                     PyStr(<<"No table name provided.">>)))
     /\ UNCHANGED <<qvars, mvars>>

FitsModels ==
  /\ FitsColumns
  /\ Len(models) <= MaxModels
  /\ Len(indexes) <= MaxIndexes
  /\ Len(builders) <= MaxBuilders

(* the column attributes of a class body: the first is named id *)
FieldLists ==
  {<<>>} \cup {<<[name |-> "id", column |-> c]>> : c \in ColumnIds}
  \cup {<<[name |-> "id", column |-> c], [name |-> "a", column |-> d]>> :
          c \in ColumnIds, d \in ColumnIds}

(* Create table: columns are made, one model class is defined from them    *)
(* and decorated, and one CREATE TABLE builder is made for a class,        *)
(* configured and built.                                                   *)
NextCreateTable ==
  \/ \E nc \in {<<PyNone, NoConstraint>>, <<PyNone, PrimaryKey(TRUE)>>,
                <<PyStr(<<"x">>), Constraint("NotNull", FALSE, 0, PyNone)>>} :
       /\ models = <<>>
       /\ Column("INTEGER", PyNone, nc[1], nc[2]) /\ UNCHANGED <<qvars, log>>
       /\ Len(columns') <= MaxFields
  \/ \E fields \in FieldLists :
       /\ models = <<>>
       /\ DefineModel("ItemRecord", fields, <<>>) /\ UNCHANGED qvars
       /\ Len(columns') <= 2 * MaxFields
       /\ log' = IF last'.raised = "" THEN fields ELSE log
  \/ \E m \in ModelIds, t \in {PyNone, PyStr(<<>>), PyStr(<<"T">>)} :
       /\ Len(models) = 1
       /\ Table(m, 0, t) /\ UNCHANGED <<qvars, log>>
  \/ \E m \in ModelIds, t, i \in BOOLEAN :
       /\ builders = <<>>
       /\ NewCreateTable(m, t, i, FALSE, FALSE)
       /\ UNCHANGED log
  \/ \E b \in BuilderIds,
        flag \in {"if_not_exists", "temp_table", "strict", "without_rowid"} :
       /\ CreateTableFlag(b, flag)
       /\ UNCHANGED log
  \/ \E b \in BuilderIds :
       /\ BuildCreateTable(b)
       /\ UNCHANGED log

SpecCreateTable == Init /\ [][NextCreateTable]_vars

BuiltCreateTable ==
  /\ last.op = "build" /\ last.raised = ""
  /\ last.query.query # PyNone

CreateTableText == last.query.query.v

FirstIndex(text, token) ==
  CHOOSE p \in 1..Len(text) :
    text[p] = token /\ \A q \in 1..(p - 1) : text[q] # token

NotBlank(token) == token # " "

(* C22: the text built by a CreateTableQueryBuilder names the table of its *)
(* model between TABLE [IF NOT EXISTS] and the column list, whichever of   *)
(* the four flags are set.                                                 *)
C22_CreateTableNamesTheTable ==
  (/\ BuiltCreateTable
   /\ models[builders[last.obj.id].table_model].table_name # PyNone
   /\ models[builders[last.obj.id].table_model].dict # <<>>) =>
    LET B == builders[last.obj.id]
        from == FirstIndex(CreateTableText,
                           IF B.if_not_exists THEN "IF NOT EXISTS" ELSE "TABLE")
        to == FirstIndex(CreateTableText, "(")
    IN SelectSeq(SubSeq(CreateTableText, from + 1, to - 1), NotBlank)
         = models[B.table_model].table_name.v

(* the definition expected for a declared column attribute: its column     *)
(* name, or the attribute name when it has none, its type and its clause   *)
ExpectedColumnDef(f) ==
  LET K == column_classes[columns[f.column].cls]
  IN (IF K.column_name # PyNone THEN K.column_name.v ELSE <<f.name>>) \o
     <<" ", K.data_type>> \o
     (CASE K.constraint.kind = "PrimaryKey" ->
             <<" ", "PRIMARY KEY", " ", "AUTOINCREMENT">>
        [] K.constraint.kind = "NotNull" -> <<" ", "NOT NULL">>
        [] OTHER -> <<>>)

LastIndex(text, token) ==
  CHOOSE p \in 1..Len(text) :
    text[p] = token /\ \A q \in (p + 1)..Len(text) : text[q] # token

(* C23: the text built by a CreateTableQueryBuilder holds, between the     *)
(* parentheses, one definition per declared column in declaration order,   *)
(* joined by ", ": the name, the type, and the constraint clause only for  *)
(* a column that has a constraint; and the args are empty.                 *)
C23_CreateTableColumns ==
  BuiltCreateTable =>
    /\ SubSeq(CreateTableText, FirstIndex(CreateTableText, "(") + 1,
              LastIndex(CreateTableText, ")") - 1)
         = Join(<<",", " ">>, [k \in 1..Len(log) |-> ExpectedColumnDef(log[k])])
    /\ last.query.args = PyTuple(<<>>)

(* a built table of two columns, the first with a constraint and the       *)
(* second, named after its attribute, without                              *)
C23_Witness ==
  /\ BuiltCreateTable
  /\ Len(log) = 2
  /\ constraint(log[1].column).kind = "PrimaryKey"
  /\ constraint(log[2].column) = NoConstraint
  /\ column_name(log[2].column) = PyNone

-----------------------------------------------------------------------------
(* Table indexes (squeeb/model/index.py) *)

(* TableIndex(columns, index_name): __post_init__ keeps the first of equal *)
(* columns                                                                 *)
NewTableIndex(cols, index_name) ==
  LET first(k) == \A l \in 1..(k - 1) : columns[cols[l]] # columns[cols[k]]
      kept == {k \in 1..Len(cols) : first(k)}
      nth(n) == CHOOSE k \in kept : Cardinality({l \in kept : l < k}) = n - 1
  IN /\ indexes' =
          Append(indexes,
                 [columns |-> [n \in 1..Cardinality(kept) |-> cols[nth(n)]],
                  index_name |-> index_name, table_model |-> 0])
     /\ last' = Call("index", NoneRef, Ref("index", Len(indexes) + 1), "",
                     NoQuery)
     /\ UNCHANGED <<column_classes, column_cache, columns, models, tables,
                    databases, instances, results>>

(* index._setup(table_model), called without a default name; the name of a *)
(* column whose class has none cannot be read                              *)
SetupIndex(x, m) ==
  LET ix == indexes[x]
      fails == /\ ix.index_name = PyNone
               /\ \E k \in 1..Len(ix.columns) :
                    column_name(ix.columns[k]) = PyNone
  IN /\ indexes' = [indexes EXCEPT
                      ![x] = IF fails THEN [ix EXCEPT !.table_model = m]
                             ELSE TableIndex_setup(ix, m, PyNone)]
     /\ last' = Call("_setup", Ref("index", x), NoneRef,
                     IF fails THEN "AttributeError" ELSE "", NoQuery)
     /\ UNCHANGED <<column_classes, column_cache, columns, models, tables,
                    databases, instances, results>>

(* Indexes: columns and indexes over them are made, one model class is     *)
(* defined with them, and indexes are set up directly.  log holds the name *)
(* each index was constructed with.                                        *)
NextIndex ==
  \/ \E nc \in {<<PyStr(<<"a">>), PrimaryKey(TRUE)>>,
                <<PyStr(<<"b">>), NoConstraint>>, <<PyNone, NoConstraint>>} :
       /\ models = <<>>
       /\ Column("INTEGER", PyNone, nc[1], nc[2]) /\ UNCHANGED <<qvars, log>>
       /\ Len(columns') <= MaxFields
  \/ \E c, d \in ColumnIds, name \in {PyNone, PyStr(<<"ix">>)} :
       /\ models = <<>>
       /\ NewTableIndex(IF c = d THEN <<c>> ELSE <<c, d>>, name)
       /\ UNCHANGED qvars
       /\ Len(indexes') <= MaxIndexes
       /\ log' = Append(log, name)
  \/ \E fields \in FieldLists, n \in 0..Len(indexes) :
       /\ models = <<>>
       /\ \E k \in 1..Len(fields) :
            constraint(fields[k].column).kind = "PrimaryKey"
       /\ DefineModel("Artist", fields,
                      [k \in 1..n |->
                         [name |-> IF k = 1 THEN "ix1" ELSE "ix2", index |-> k]])
       /\ UNCHANGED <<qvars, log>>
       /\ Len(columns') <= 2 * MaxFields
  \/ \E x \in DOMAIN indexes, m \in ModelIds :
       /\ SetupIndex(x, m)
       /\ UNCHANGED <<qvars, log>>

SpecIndex == Init /\ [][NextIndex]_vars

IndexedNames(x) ==
  [k \in 1..Len(indexes[x].columns) |-> column_name(indexes[x].columns[k])]

(* C24: two indexes constructed without a name that belong to the same     *)
(* model and index the same columns have the same name, and an index       *)
(* constructed with a name keeps it.                                       *)
C24_DefaultIndexName ==
  /\ \A x, y \in DOMAIN indexes :
       (/\ log[x] = PyNone /\ log[y] = PyNone
        /\ indexes[x].table_model # 0
        /\ indexes[x].table_model = indexes[y].table_model
        /\ indexes[x].index_name # PyNone /\ indexes[y].index_name # PyNone
        /\ IndexedNames(x) = IndexedNames(y))
       => indexes[x].index_name = indexes[y].index_name
  /\ \A x \in DOMAIN indexes : log[x] # PyNone => indexes[x].index_name = log[x]

-----------------------------------------------------------------------------
(* Databases (squeeb/db.py) and the foreign keys between models            *)
(* (squeeb/model/models.py)                                                *)

(* make_database_class(name): a subclass of Database with no __tables__ of *)
(* its own                                                                 *)
MakeDatabaseClass(name) ==
  /\ databases' = Append(databases, [name |-> name])
  /\ last' = Call("make_database_class", NoneRef,
                  Ref("database", Len(databases) + 1), "", NoQuery)
  /\ UNCHANGED <<column_classes, column_cache, columns, models, tables,
                 indexes, instances, results>>

(* ForeignKey(model, model.id): the referenced class and the column name   *)
(* of its primary key attribute                                            *)
ForeignKey(m) ==
  LET d == models[m].dict
      k == CHOOSE k \in 1..Len(d) : d[k].name = models[m].id_key
  IN Constraint("ForeignKey", FALSE, m, column_name(d[k].column))

(* _sort_models.foreign_models(model) *)
foreign_models(m) ==
  LET d == models[m].dict
  IN {constraint(d[k].column).foreign_table_class :
        k \in {l \in 1..Len(d) : constraint(d[l].column).kind = "ForeignKey"}}

(* _sort_models.compare(a, b) *)
compare(a, b) ==
  IF a \in foreign_models(b) THEN -1
  ELSE IF b \in foreign_models(a) THEN 1
  ELSE 0

(* list.sort's binary search for the place of pivot in L[l..r-1]; x < y is *)
(* compare(x, y) < 0, as functools.cmp_to_key defines it                   *)
RECURSIVE bisect(_, _, _, _)
bisect(L, pivot, l, r) ==
  IF l >= r THEN l
  ELSE LET p == l + ((r - l) \div 2)
       IN IF compare(pivot, L[p]) < 0 THEN bisect(L, pivot, l, p)
          ELSE bisect(L, pivot, p + 1, r)

(* list.sort's binary insertion of L[start..] into the sorted L[1..start-1] *)
RECURSIVE binarysort(_, _)
binarysort(L, start) ==
  IF start > Len(L) THEN L
  ELSE LET l == bisect(L, L[start], 1, start)
       IN binarysort(SubSeq(L, 1, l - 1) \o <<L[start]>> \o
                     SubSeq(L, l, start - 1) \o SubSeq(L, start + 1, Len(L)),
                     start + 1)

(* _sort_models(models): sorted(models, key=cmp_to_key(compare)).  A list  *)
(* this short is one run for list.sort: the leading ascending or strictly  *)
(* descending run is found, a descending one reversed, and the rest is     *)
(* inserted by binary search.                                              *)
_sort_models(L) ==
  IF Len(L) < 2 THEN L
  ELSE LET lt(i) == compare(L[i], L[i - 1]) < 0
           descending == lt(2)
           n == CHOOSE r \in 2..Len(L) :
                  /\ \A i \in 3..r : lt(i) = descending
                  /\ r = Len(L) \/ lt(r + 1) # descending
           run == IF descending THEN [i \in 1..n |-> L[n + 1 - i]]
                  ELSE SubSeq(L, 1, n)
       IN binarysort(run \o SubSeq(L, n + 1, Len(L)), n + 1)

(* _validate_foreign_keys(database): database.__class__.__tables__ is the  *)
(* list tables whatever the database class is                              *)
_validate_foreign_keys(db) ==
  IF \E i \in 1..Len(tables) :
       \E t \in foreign_models(tables[i]) :
         \A j \in 1..Len(tables) : tables[j] # t
  THEN "IntegrityError" ELSE ""

(* Database._init_tables, on an instance of the database class db:         *)
(* init_table returns None, so the loop returns False after the first      *)
(* model                                                                   *)
InitTables(db) ==
  LET raised == _validate_foreign_keys(db)
      sorted == _sort_models(tables)
  IN /\ last' = Call("_init_tables", Ref("database", db),
                     Ref(IF sorted = <<>> THEN "True" ELSE "False", 0),
                     raised, NoQuery)
     /\ models' = IF raised = "" /\ sorted # <<>>
                  THEN [models EXCEPT ![sorted[1]].initialized = TRUE]
                  ELSE models
     /\ UNCHANGED <<column_classes, column_cache, columns, tables, indexes,
                    databases, instances, results>>

(* a call of _sort_models(L) *)
SortModels(L) ==
  /\ last' = Call("_sort_models", NoneRef, PyList(_sort_models(L)), "",
                  NoQuery)
  /\ UNCHANGED mvars

(* Sorting: model classes are defined, each with a primary key and         *)
(* possibly a foreign key to an earlier class, and lists of them sorted.   *)
(* log holds the list passed to _sort_models.                              *)
NextSort ==
  \/ \E nc \in {<<PyStr(<<"id">>), PrimaryKey(FALSE)>>} \cup
               {<<PyStr(<<"a">>), ForeignKey(m)>> : m \in ModelIds} :
       /\ Column("INTEGER", PyNone, nc[1], nc[2]) /\ UNCHANGED <<qvars, log>>
       /\ FitsModels'
  \/ \E fields \in FieldLists :
       /\ fields # <<>>
       /\ constraint(fields[1].column).kind = "PrimaryKey"
       /\ Len(fields) = 2 => constraint(fields[2].column).kind = "ForeignKey"
       /\ DefineModel("Artist", fields, <<>>) /\ UNCHANGED <<qvars, log>>
       /\ Len(models') <= MaxSorted
  \/ \E L \in {P \in [ModelIds -> ModelIds] :
                  \A i, j \in ModelIds : i # j => P[i] # P[j]} :
       /\ SortModels(L) /\ UNCHANGED qvars
       /\ log' = L

SpecSort == Init /\ [][NextSort]_vars

Position(L, m) == CHOOSE i \in 1..Len(L) : L[i] = m

(* C28: _sort_models returns a permutation of the list it is given in      *)
(* which every model comes after the models its foreign keys reference.    *)
C28_SortedByDependency ==
  last.op = "_sort_models" =>
    LET R == last.ret.v
    IN /\ Len(R) = Len(log)
       /\ \A i \in 1..Len(log) : \E j \in 1..Len(R) : R[j] = log[i]
       /\ \A a, b \in {log[i] : i \in 1..Len(log)} :
            (a # b /\ a \in foreign_models(b))
            => Position(R, a) < Position(R, b)

-----------------------------------------------------------------------------
(* Databases: database classes are made, model classes defined, possibly   *)
(* with a foreign key to an earlier class, and registered with a database  *)
(* class by @table, and the tables of a database initialised.              *)
NextDatabase ==
  \/ \E name \in {"Db"} :
       /\ MakeDatabaseClass(name) /\ UNCHANGED <<qvars, log>>
       /\ Len(databases') <= MaxDatabases
  \/ \E nc \in {<<PyStr(<<"id">>), PrimaryKey(FALSE)>>} \cup
               {<<PyStr(<<"a">>), ForeignKey(m)>> : m \in ModelIds} :
       /\ Column("INTEGER", PyNone, nc[1], nc[2]) /\ UNCHANGED <<qvars, log>>
       /\ FitsModels'
  \/ \E fields \in FieldLists :
       /\ fields # <<>>
       /\ constraint(fields[1].column).kind = "PrimaryKey"
       /\ Len(fields) = 2 => constraint(fields[2].column).kind = "ForeignKey"
       /\ DefineModel("Artist", fields, <<>>) /\ UNCHANGED <<qvars, log>>
       /\ FitsModels'
  \/ \E m \in ModelIds, db \in DOMAIN databases :
       /\ models[m].base = 0
       /\ \A t \in ModelIds : models[t].base # m
       /\ Table(m, db, PyNone) /\ UNCHANGED <<qvars, log>>
       /\ FitsModels'
  \/ \E db \in DOMAIN databases :
       /\ InitTables(db) /\ UNCHANGED <<qvars, log>>

SpecDatabase == Init /\ [][NextDatabase]_vars

RegisteredWith(m, db) ==
  /\ \E i \in 1..Len(tables) : tables[i] = m
  /\ models[m].db_class = db

(* C26: initialising the tables of a database raises IntegrityError when a *)
(* model registered with its class has a foreign key to a model that is    *)
(* not registered with that class.                                         *)
C26_ForeignKeysStayInOneDatabase ==
  (/\ last.op = "_init_tables"
   /\ \E m \in ModelIds :
        /\ RegisteredWith(m, last.obj.id)
        /\ \E t \in foreign_models(m) : ~RegisteredWith(t, last.obj.id))
  => last.raised = "IntegrityError"

-----------------------------------------------------------------------------
(* Result objects (squeeb/model/models.py, squeeb/db.py).                  *)
(*   results  the result objects made: the class, the error field, and in  *)
(*            data the rowcount, row or rows field of a handler result     *)
MaxResults == 2

(* cls(error=error) and, for a handler result, cls(data) or                *)
(* cls(data, error): the frozen dataclass keeps the fields it is given     *)
NewResult(cls, data, error) ==
  /\ results' = Append(results, [cls |-> cls, data |-> data, error |-> error])
  /\ last' = Call(cls, NoneRef, Ref("result", Len(results) + 1), "", NoQuery)
  /\ UNCHANGED <<column_classes, column_cache, columns, models, tables,
                 indexes, databases, instances>>

(* r.success: DbOperationResult.success and BaseDbHandlerResult.success    *)
(* both return `self.error is not None`                                    *)
success(r) ==
  /\ last' = Call("success", Ref("result", r),
                  [t |-> "bool", v |-> results[r].error # PyNone], "",
                  NoQuery)
  /\ UNCHANGED mvars

(* Results: result objects are made with and without an error, and their   *)
(* success property read.                                                  *)
NextResults ==
  \/ \E cls \in {"DbOperationResult", "DbHandlerNoResult",
                 "DbHandlerSingleResult", "DbHandlerMultiResult"},
        data \in {PyNone, PyInt(1)}, error \in {PyNone, PyStr(<<"e">>)} :
       /\ cls = "DbOperationResult" => data = PyNone
       /\ NewResult(cls, data, error) /\ UNCHANGED <<qvars, log>>
       /\ Len(results') <= MaxResults
  \/ \E r \in DOMAIN results :
       /\ success(r) /\ UNCHANGED <<qvars, log>>

SpecResults == Init /\ [][NextResults]_vars

(* C29: for a DbOperationResult and for each handler result, success is    *)
(* true if and only if error is None.                                      *)
C29_SuccessIffNoError ==
  last.op = "success" =>
    (last.ret.v <=> results[last.obj.id].error = PyNone)

-----------------------------------------------------------------------------
(* Model instances (squeeb/model/models.py).                               *)
(*   instances  the model objects made: the class, in values the value of  *)
(*              the instance's own copy of each column of the class, and   *)
(*              in changed the set _changed_fields.  The set holds column  *)
(*              objects under the hash they had when they were added,      *)
(*              which is computed from the value: an entry is the field    *)
(*              whose column it is and that value.                         *)
MaxInstances == 2

(* m(): Model.__new__ deep-copies the columns of the class into the        *)
(* instance, Model.__init__ sets _changed_fields to an empty set           *)
NewInstance(m) ==
  /\ instances' =
       Append(instances,
              [model |-> m,
               values |-> [k \in 1..Len(models[m].dict) |->
                             columns[models[m].dict[k].column].value],
               changed |-> {}])
  /\ last' = Call("Model", Ref("model", m),
                  Ref("instance", Len(instances) + 1), "", NoQuery)
  /\ UNCHANGED <<column_classes, column_cache, columns, models, tables,
                 indexes, databases, results>>

(* Model.__setattr__(name, value) for the k-th column attribute of the     *)
(* instance i: the value is stored, then the column is added to            *)
(* _changed_fields, which hashes it and raises for an unhashable value     *)
SetAttr(i, k, value) ==
  /\ instances' =
       [instances EXCEPT
          ![i].values[k] = value,
          ![i].changed = IF value.t = "list" THEN @
                         ELSE @ \cup {[field |-> k, hash |-> value]}]
  /\ last' = Call("__setattr__", Ref("instance", i), NoneRef,
                  IF value.t = "list" THEN "TypeError" ELSE "", NoQuery)
  /\ UNCHANGED <<column_classes, column_cache, columns, models, tables,
                 indexes, databases, results>>

(* i._get_value_map(only_updated_fields): a column is skipped when         *)
(* `not only_updated_fields or attr not in self._changed_fields`; the      *)
(* membership test hashes the column                                       *)
_get_value_map(i, only_updated_fields) ==
  LET I == instances[i]
      dict == models[I.model].dict
      tested == {k \in 1..Len(dict) : only_updated_fields}
      kept == {k \in tested : [field |-> k, hash |-> I.values[k]] \in I.changed}
      entry(k) == <<[k |-> column_name(dict[k].column), v |-> I.values[k]]>>
      RECURSIVE value_map(_)
      value_map(k) ==
        IF k > Len(dict) THEN <<>>
        ELSE (IF k \in kept THEN <<entry(k)>> ELSE <<>>) \o value_map(k + 1)
      op == IF only_updated_fields THEN "_get_value_map(True)"
            ELSE "_get_value_map()"
  IN /\ IF \E k \in tested : I.values[k].t = "list"
        THEN last' = Call(op, Ref("instance", i), NoneRef, "TypeError", NoQuery)
        ELSE last' = Call(op, Ref("instance", i), PyList(value_map(1)), "",
                          NoQuery)
     /\ UNCHANGED mvars

(* Instances: columns are made, one model class is defined from them,      *)
(* instances of it are made, their column attributes assigned and their    *)
(* value maps read.  log holds, for each instance, the fields assigned     *)
(* since it was made.                                                      *)
NextInstance ==
  \/ \E nc \in {<<PyStr(<<"id">>), PrimaryKey(TRUE), PyNone>>,
                <<PyStr(<<"name">>), NoConstraint, PyNone>>,
                <<PyStr(<<"name">>), NoConstraint, PyInt(2)>>} :
       /\ models = <<>>
       /\ Column("INTEGER", nc[3], nc[1], nc[2]) /\ UNCHANGED <<qvars, log>>
       /\ Len(columns') <= MaxFields
  \/ \E fields \in FieldLists :
       /\ models = <<>>
       /\ fields # <<>>
       /\ constraint(fields[1].column).kind = "PrimaryKey"
       /\ DefineModel("Artist", fields, <<>>) /\ UNCHANGED <<qvars, log>>
  \/ \E m \in ModelIds :
       /\ NewInstance(m) /\ UNCHANGED qvars
       /\ Len(instances') <= MaxInstances
       /\ log' = Append(log, {})
  \/ \E i \in DOMAIN instances, value \in {PyInt(1), PyList(<<1>>)} :
       \E k \in 1..Len(instances[i].values) :
         /\ SetAttr(i, k, value) /\ UNCHANGED qvars
         /\ log' = [log EXCEPT ![i] = @ \cup {k}]
  \/ \E i \in DOMAIN instances, only_updated_fields \in BOOLEAN :
       /\ _get_value_map(i, only_updated_fields) /\ UNCHANGED <<qvars, log>>

SpecInstance == Init /\ [][NextInstance]_vars

(* the entries {column name: value} for the fields ks of the instance of   *)
(* the last call, in the order of the class's mapping                      *)
RECURSIVE ExpectedValueMap(_, _)
ExpectedValueMap(ks, k) ==
  LET I == instances[last.obj.id]
      dict == models[I.model].dict
  IN IF k > Len(dict) THEN <<>>
     ELSE (IF k \in ks
           THEN <<<<[k |-> column_name(dict[k].column), v |-> I.values[k]]>>>>
           ELSE <<>>) \o ExpectedValueMap(ks, k + 1)

(* C30: _get_value_map() returns one entry per mapped column holding the   *)
(* column's current value, and _get_value_map(True) returns an entry for   *)
(* exactly the columns assigned since the instance was made.               *)
C30_ValueMapOfInstance ==
  /\ last.op = "_get_value_map()" =>
       /\ last.raised = ""
       /\ last.ret =
            PyList(ExpectedValueMap(DOMAIN instances[last.obj.id].values, 1))
  /\ last.op = "_get_value_map(True)" =>
       /\ last.raised = ""
       /\ last.ret = PyList(ExpectedValueMap(log[last.obj.id], 1))

====
